---- MODULE Spec2Model ----
(***************************************************************************)
(* A model of the layout engine of scryfall_card_creator.py: the art       *)
(* placement calculator, the token lexer, the line breaker, the auto-fit   *)
(* text sizer, the block renderer and the card compositor.                 *)
(*                                                                         *)
(* Strings are sequences of one-character strings.  Pixel quantities are   *)
(* integers.  Python's int(x * f) for the decimal factors the program uses *)
(* is the exact floor for every size below 3000 (checked against CPython), *)
(* and is written with \div.  The one place where binary64 rounding        *)
(* changes a result, int(a * (b / c)) in calculate_art_placement, is       *)
(* modelled bit-exactly by TruncMulDiv.                                    *)
(***************************************************************************)
EXTENDS Integers, Sequences, FiniteSets, TLC

VARIABLES
    art_size,       \* art.size: <<art_width, art_height>>
    placement,      \* the tuple calculate_art_placement returned, or NoValue
    art_pc,         \* "start" | "placed" | "pasted"
    text,           \* the string a lexer or renderer is handed
    tokens,         \* the token list parse_text_with_mana returned
    font,           \* the font handle the running function measures with
    max_width,      \* wrap_tokens' max_width
    mana_size,      \* wrap_tokens' mana_size
    lines,          \* the list of lines wrap_tokens returned
    text_pc,        \* "start" | "lexed" | "wrapped"
    font_files,     \* the font names that have a font file
    symbol_files,   \* the lower-case symbol identifiers that have a symbol file
    font_cache,     \* _font_cache
    mana_cache,     \* _mana_cache
    request,        \* the load_font and load_mana_symbol calls made, in order
    reply,          \* what each of those calls returned
    oracle_text,    \* draw_rules_text's oracle_text
    flavor_text,    \* draw_rules_text's flavor_text (None is the empty string)
    bounds,         \* the running renderer's bounds, in pixels
    bar,            \* the bar.png asset, or NoValue
    font_size,      \* the running renderer's font_size
    total_height,   \* draw_rules_text's total_height
    all_lines,      \* draw_rules_text's all_lines
    tried,          \* the candidate sizes the running shrink loop has measured
    drawn,          \* the draw operations of the running renderer, in order
    y_end,          \* draw_rules_text's y after the render loop
    slots,          \* draw_mana_cost's x at the start of every loop iteration
    cursor,         \* the x the running symbol renderer ends with
    render_pc,      \* the running renderer's position
    card_data,      \* create_card's card_data
    artist,         \* create_card's artist
    border_file,    \* whether the border file exists
    canvas,         \* the draws performed on the card, in order
    card_pc         \* create_card's position

artVars == <<art_size, placement, art_pc>>
textVars == <<text, tokens, font, max_width, mana_size, lines, text_pc>>
envVars == <<font_files, symbol_files, font_cache, mana_cache>>
renderVars == <<oracle_text, flavor_text, bounds, bar, font_size, total_height,
                all_lines, tried, drawn, y_end, slots, cursor, render_pc>>
cardVars == <<card_data, artist, border_file, canvas, card_pc>>
callVars == <<request, reply>>
vars == <<artVars, textVars, envVars, callVars, renderVars, cardVars>>

NoValue == [none |-> TRUE]

(***************************************************************************)
(* Program constants.                                                      *)
(***************************************************************************)
CARD_WIDTH == 1500
CARD_HEIGHT == 2100
\* int(ART_BOUNDS['x'] * CARD_WIDTH) and the three like it (lines 339-342).
ART_BOUNDS_X == 155
ART_BOUNDS_Y == 186
ART_BOUNDS_WIDTH == 1191
ART_BOUNDS_HEIGHT == 954

(***************************************************************************)
(* Bounds of the model.                                                    *)
(***************************************************************************)
\* Art bitmaps of every size up to MaxArt x MaxArt are tried.
MaxArt == 120
\* Art bitmaps with exactly the art box's aspect ratio, 397k x 318k, k up to
\* MaxArtScale, are tried as well.
MaxArtScale == 11
\* The lexer is run on every string of at most MaxLexLen characters.
MaxLexLen == 5
\* The line breaker is run on every string of at most MaxWrapLen characters,
\* at every max_width up to MaxWrapWidth.
MaxWrapLen == 5
MaxWrapWidth == 24
\* draw_rules_text is run on every oracle text of at most MaxOracleLen characters.
MaxOracleLen == 3
MaxElemLen == 4
MaxCostSymbols == 3

(***************************************************************************)
(* Arithmetic helpers.                                                     *)
(***************************************************************************)
Max(a, b) == IF a >= b THEN a ELSE b
Min(a, b) == IF a <= b THEN a ELSE b

\* Python's floor division a // b for b > 0 (a may be negative).
FloorDiv(a, b) == a \div b

\* The e with 2^e <= n < 2^(e+1), n >= 1.
RECURSIVE Log2Floor(_)
Log2Floor(n) == IF n < 2 THEN 0 ELSE 1 + Log2Floor(n \div 2)

\* The e with 2^e <= b/c < 2^(e+1), b, c >= 1 (e may be negative).
RECURSIVE Log2FloorRatio(_, _)
Log2FloorRatio(b, c) ==
    IF b >= c THEN (IF 2 * c <= b THEN 1 + Log2FloorRatio(b, 2 * c) ELSE 0)
    ELSE Log2FloorRatio(2 * b, c) - 1

\* (x * 2^s) mod m, by s doublings.
RECURSIVE ShiftMod(_, _, _)
ShiftMod(x, s, m) == IF s = 0 THEN x % m ELSE ShiftMod((2 * x) % m, s - 1, m)

(***************************************************************************)
(* int(a * (b / c)) as CPython evaluates it in binary64, for                *)
(* 1 <= a, b, c < 2^13.  With N = floor(a*b/c):                            *)
(*  - if c does not divide a*b the product lies strictly between N and N+1 *)
(*    and truncates to N;                                                  *)
(*  - if c divides a*b the real product is N, and the computed one is     *)
(*    below N exactly when the quotient b/c was rounded down (remainder r  *)
(*    of b*2^s by c, s = 52 - e_q, is below c/2, or equal with an even     *)
(*    mantissa) by enough that a*r/(c*2^s) exceeds half the spacing of     *)
(*    doubles below N; the result then truncates to N - 1.                 *)
(* The definition agrees with CPython on all 1 <= a, c < 700 and on two    *)
(* million random triples below 8192, for b in {954, 1191}.                *)
(***************************************************************************)
TruncMulDiv(a, b, c) ==
    LET N == (a * b) \div c
        eq == Log2FloorRatio(b, c)
        s == 52 - eq
        r == ShiftMod(b, s, c)
        m0odd == ShiftMod(b, s, 2 * c) >= c
        down == (2 * r < c) \/ (2 * r = c /\ ~m0odd)
        eN == Log2Floor(N)
        k == eN - eq - (IF N = 2 ^ eN THEN 1 ELSE 0)
        under == IF k >= 0 THEN 2 * a * r > c * (2 ^ k)
                 ELSE 2 * a * r * (2 ^ (0 - k)) > c
    IN  IF (a * b) % c # 0 THEN N
        ELSE IF r = 0 \/ ~down THEN N
        ELSE IF under THEN N - 1 ELSE N

(***************************************************************************)
(* calculate_art_placement (lines 323-361).  The comparison                *)
(* art_aspect > bounds_aspect of two correctly rounded quotients of        *)
(* integers below 2^13 agrees with the comparison of the exact fractions.  *)
(***************************************************************************)
calculate_art_placement(art_width, art_height) ==
    IF art_width * ART_BOUNDS_HEIGHT > ART_BOUNDS_WIDTH * art_height
    THEN \* art is wider than bounds: fit to height, center horizontally
         LET new_height == ART_BOUNDS_HEIGHT
             new_width == TruncMulDiv(art_width, ART_BOUNDS_HEIGHT, art_height)
         IN  [x |-> ART_BOUNDS_X - FloorDiv(new_width - ART_BOUNDS_WIDTH, 2),
              y |-> ART_BOUNDS_Y,
              width |-> new_width, height |-> new_height]
    ELSE \* art is taller than bounds: fit to width, center vertically
         LET new_width == ART_BOUNDS_WIDTH
             new_height == TruncMulDiv(art_height, ART_BOUNDS_WIDTH, art_width)
         IN  [x |-> ART_BOUNDS_X,
              y |-> ART_BOUNDS_Y - FloorDiv(new_height - ART_BOUNDS_HEIGHT, 2),
              width |-> new_width, height |-> new_height]

(***************************************************************************)
(* Strings.                                                                *)
(***************************************************************************)
\* Every string of at most n characters over the alphabet A.
Strings(A, n) == UNION {[1..k -> A] : k \in 0..n}

\* What str.strip() and str.lstrip() remove.
Whitespace == {" ", "\n"}

\* s[i:] and s[:j] for 1-based i, j.
From(s, i) == SubSeq(s, i, Len(s))
Upto(s, j) == SubSeq(s, 1, j)

\* not s.strip()
IsBlank(s) == \A i \in 1..Len(s) : s[i] \in Whitespace

\* s.lstrip()
RECURSIVE LStrip(_)
LStrip(s) == IF s # <<>> /\ s[1] \in Whitespace THEN LStrip(Tail(s)) ELSE s

\* s.split(sep) for a one-character sep: always at least one piece.
RECURSIVE SplitFrom(_, _, _, _)
SplitFrom(s, sep, i, piece) ==
    IF i > Len(s) THEN <<piece>>
    ELSE IF s[i] = sep THEN <<piece>> \o SplitFrom(s, sep, i + 1, <<>>)
    ELSE SplitFrom(s, sep, i + 1, Append(piece, s[i]))

Split(s, sep) == SplitFrom(s, sep, 1, <<>>)

\* The concatenation of a sequence of strings.
RECURSIVE Concat(_)
Concat(ss) == IF ss = <<>> THEN <<>> ELSE Head(ss) \o Concat(Tail(ss))

(***************************************************************************)
(* The regular expression \{[^}]+\} (lines 209 and 442).                   *)
(***************************************************************************)
\* The index of the first "}" of s at or after i, or 0.
RECURSIVE FirstClose(_, _)
FirstClose(s, i) ==
    IF i > Len(s) THEN 0
    ELSE IF s[i] = "}" THEN i
    ELSE FirstClose(s, i + 1)

\* The end of the match that starts at p, or 0: "{", then as many non-"}"
\* characters as there are (at least one), then "}".
MatchEnd(s, p) ==
    IF p <= Len(s) /\ s[p] = "{" /\ FirstClose(s, p + 1) >= p + 2
    THEN FirstClose(s, p + 1) ELSE 0

\* The start of the leftmost match at or after i, or 0.
RECURSIVE NextMatch(_, _)
NextMatch(s, i) ==
    IF i > Len(s) THEN 0
    ELSE IF MatchEnd(s, i) # 0 THEN i
    ELSE NextMatch(s, i + 1)

\* re.split(r'(\{[^}]+\})', s): the pieces between the matches alternate with
\* the matches themselves; pieces may be empty.
RECURSIVE ReSplit(_, _)
ReSplit(s, i) ==
    LET p == NextMatch(s, i)
    IN  IF p = 0 THEN <<SubSeq(s, i, Len(s))>>
        ELSE <<SubSeq(s, i, p - 1), SubSeq(s, p, MatchEnd(s, p))>>
             \o ReSplit(s, MatchEnd(s, p) + 1)

\* re.findall(r'\{([^}]+)\}', s): the group of every match.
RECURSIVE ReFindAll(_, _)
ReFindAll(s, i) ==
    LET p == NextMatch(s, i)
    IN  IF p = 0 THEN <<>>
        ELSE <<SubSeq(s, p + 1, MatchEnd(s, p) - 1)>> \o ReFindAll(s, MatchEnd(s, p) + 1)

(***************************************************************************)
(* TextToken (lines 429-433) and parse_text_with_mana (lines 436-455).     *)
(***************************************************************************)
TextToken(token_type, value) == [type |-> token_type, value |-> value]

\* part.startswith('{') and part.endswith('}')
IsManaPart(part) == part # <<>> /\ part[1] = "{" /\ part[Len(part)] = "}"

\* The loop body of lines 445-453 for one part.
PartTokens(part) ==
    IF part = <<>> THEN <<>>
    ELSE IF IsManaPart(part)
    THEN <<TextToken("mana", SubSeq(part, 2, Len(part) - 1))>>
    ELSE <<TextToken("text", part)>>

RECURSIVE TokensOfParts(_)
TokensOfParts(parts) ==
    IF parts = <<>> THEN <<>>
    ELSE PartTokens(Head(parts)) \o TokensOfParts(Tail(parts))

parse_text_with_mana(s) == TokensOfParts(ReSplit(s, 1))

\* parse_mana_cost (lines 200-211).
parse_mana_cost(mana_cost) ==
    IF mana_cost = <<>> THEN <<>> ELSE ReFindAll(mana_cost, 1)

(***************************************************************************)
(* Fonts and text measurement.  A font handle is [name, size]; the glyph   *)
(* provider (PIL) is outside the repository and is modelled by a metric in *)
(* which a glyph's advance grows with the pixel size: half the size for a  *)
(* space, the full size for any other character, a tenth less in italics.  *)
(* The fallback font ignores the size asked for.                           *)
(***************************************************************************)
FontHandle(font_name, size) == [name |-> font_name, size |-> size]

\* ImageFont.load_default(): a bitmap font of one fixed size.
DefaultFont == FontHandle("default", 6)

GlyphAdvance(c, f) ==
    LET em == IF f.name = "mplantini" THEN (f.size * 9) \div 10 ELSE f.size
    IN  IF c = " " THEN em \div 2 ELSE em

\* get_text_size (lines 385-388): the width of the text's bounding box.
RECURSIVE get_text_size(_, _)
get_text_size(s, f) ==
    IF s = <<>> THEN 0
    ELSE IF Len(s) = 1 THEN GlyphAdvance(s[1], f)
    ELSE get_text_size(SubSeq(s, 1, Len(s) \div 2), f)
         + get_text_size(SubSeq(s, Len(s) \div 2 + 1, Len(s)), f)

\* mana_size + int(mana_size * 0.1) (lines 472, 518, 561, 652).
SymbolWidth(size) == size + size \div 10

\* The width of one unit of a line (lines 467-472 and 648-652).
UnitWidth(token, f, size) ==
    IF token.type = "text" THEN get_text_size(token.value, f) ELSE SymbolWidth(size)

\* measure_tokens (lines 458-473).
RECURSIVE measure_tokens(_, _, _)
measure_tokens(toks, f, size) ==
    IF toks = <<>> THEN 0
    ELSE UnitWidth(Head(toks), f, size) + measure_tokens(Tail(toks), f, size)

(***************************************************************************)
(* wrap_tokens (lines 476-532).  The loop state is                         *)
(* [lines, current_line, current_width].                                   *)
(***************************************************************************)
WrapStart == [lines |-> <<>>, current_line |-> <<>>, current_width |-> 0]

\* FitsLine with the unit's own width left out of the test.
FitsLineIgnoringUnit(current_width, width, maxw, current_line) ==
    current_width <= maxw \/ current_line = <<>>

\* FitsLine with a strict comparison: a unit that fills the line exactly
\* is sent to the next line.
FitsLineStrictly(current_width, width, maxw, current_line) ==
    current_width + width < maxw \/ current_line = <<>>

\* current_width + width <= max_width or not current_line (lines 507, 519).
FitsLine(current_width, width, maxw, current_line) ==
    current_width + width <= maxw \/ current_line = <<>>

\* Lines 497-500: the word with the space that precedes it, when it has one.
WordWithSpace(i, word, current_line) ==
    IF i > 1 \/ (current_line # <<>> /\ current_line[Len(current_line)].type # "mana")
    THEN (IF current_line # <<>> THEN <<" ">> \o word ELSE word)
    ELSE word

\* Lines 496-515 for the i-th word (1-based) of a text token.
WrapWord(st, i, word, f, maxw) ==
    LET word_with_space == WordWithSpace(i, word, st.current_line)
        word_width == get_text_size(word_with_space, f)
    IN  IF IsBlank(word_with_space) THEN st
        ELSE IF FitsLine(st.current_width, word_width, maxw, st.current_line)
        THEN [st EXCEPT !.current_line = Append(@, TextToken("text", word_with_space)),
                        !.current_width = @ + word_width]
        ELSE [lines |-> Append(st.lines, st.current_line),
              current_line |-> <<TextToken("text", LStrip(word))>>,
              current_width |-> get_text_size(LStrip(word), f)]

RECURSIVE WrapWords(_, _, _, _, _)
WrapWords(st, words, i, f, maxw) ==
    IF i > Len(words) THEN st
    ELSE WrapWords(WrapWord(st, i, words[i], f, maxw), words, i + 1, f, maxw)

\* Lines 517-527 for a mana token.
WrapSymbol(st, token, maxw, size) ==
    LET symbol_width == SymbolWidth(size)
    IN  IF FitsLine(st.current_width, symbol_width, maxw, st.current_line)
        THEN [st EXCEPT !.current_line = Append(@, token),
                        !.current_width = @ + symbol_width]
        ELSE [lines |-> Append(st.lines, st.current_line),
              current_line |-> <<token>>,
              current_width |-> symbol_width]

WrapToken(st, token, f, maxw, size) ==
    IF token.type = "text"
    THEN WrapWords(st, Split(token.value, " "), 1, f, maxw)
    ELSE WrapSymbol(st, token, maxw, size)

RECURSIVE WrapLoop(_, _, _, _, _)
WrapLoop(st, toks, f, maxw, size) ==
    IF toks = <<>> THEN st
    ELSE WrapLoop(WrapToken(st, Head(toks), f, maxw, size), Tail(toks), f, maxw, size)

wrap_tokens(toks, f, maxw, size) ==
    LET st == WrapLoop(WrapStart, toks, f, maxw, size)
    IN  IF st.current_line # <<>> THEN Append(st.lines, st.current_line) ELSE st.lines

(***************************************************************************)
(* The caches (lines 121-125) are functions from keys to values.           *)
(* load_font (lines 128-152) and load_mana_symbol (lines 155-197) return   *)
(* [value, cache]: what the call returns and the cache it leaves.          *)
(***************************************************************************)
EmptyCache == <<>>

CachePut(cache, key, value) ==
    [k \in DOMAIN cache \cup {key} |-> IF k = key THEN value ELSE cache[k]]

\* The handle ImageFont.truetype or ImageFont.load_default gives (lines 134-149).
OpenFont(font_name, size, files) ==
    IF font_name \in files THEN FontHandle(font_name, size)
    ELSE DefaultFont

\* A load_font that opens the font again on a hit and stores the new handle.
load_font_refreshing(font_name, size, files, cache) ==
    [value |-> OpenFont(font_name, size, files),
     cache |-> CachePut(cache, <<font_name, size>>, OpenFont(font_name, size, files))]

\* A cache keyed by the font name alone: a hit may return a handle opened at
\* another size.
load_font_by_name(font_name, size, files, cache) ==
    LET cache_key == <<font_name, 0>>
    IN  IF cache_key \in DOMAIN cache
        THEN [value |-> cache[cache_key], cache |-> cache]
        ELSE [value |-> OpenFont(font_name, size, files),
              cache |-> CachePut(cache, cache_key, OpenFont(font_name, size, files))]

load_font(font_name, size, files, cache) ==
    LET cache_key == <<font_name, size>>
    IN  IF cache_key \in DOMAIN cache
        THEN [value |-> cache[cache_key], cache |-> cache]
        ELSE [value |-> OpenFont(font_name, size, files),
              cache |-> CachePut(cache, cache_key, OpenFont(font_name, size, files))]

\* symbol.lower() (line 165), on the characters the model uses.
LowerChar(c) ==
    CASE c = "T" -> "t" [] c = "G" -> "g" [] c = "U" -> "u" [] c = "A" -> "a"
      [] OTHER -> c

Lower(s) == [i \in 1..Len(s) |-> LowerChar(s[i])]

\* A loader that hands out a placeholder bitmap for a symbol without a file.
load_mana_symbol_placeholder(symbol, size, files, cache) ==
    IF <<symbol, size>> \in DOMAIN cache
    THEN [value |-> cache[<<symbol, size>>], cache |-> cache]
    ELSE [value |-> [id |-> Lower(symbol), size |-> size],
          cache |-> IF Lower(symbol) \in files
                    THEN CachePut(cache, <<symbol, size>>, [id |-> Lower(symbol), size |-> size])
                    ELSE cache]

\* files: the lower-case identifiers that have a readable symbol file.
load_mana_symbol(symbol, size, files, cache) ==
    LET cache_key == <<symbol, size>>
        img == [id |-> Lower(symbol), size |-> size]
    IN  IF cache_key \in DOMAIN cache
        THEN [value |-> cache[cache_key], cache |-> cache]
        ELSE IF Lower(symbol) \notin files
        THEN [value |-> NoValue, cache |-> cache]
        ELSE [value |-> img, cache |-> CachePut(cache, cache_key, img)]

(***************************************************************************)
(* draw_token_line (lines 535-561).  The result is [ops, x, cache]: the    *)
(* draw operations in order, the cursor after the last token, and the      *)
(* symbol cache.  font.getbbox('A')[3] is the font's pixel size in the     *)
(* model's metric.                                                         *)
(***************************************************************************)
FontAscent(f) == f.size

\* Line 561: the cursor after a symbol, whether or not it was drawn.
AfterSymbol(current_x, size) == current_x + SymbolWidth(size)

DrawToken(st, token, y, f, size, files) ==
    IF token.type = "text"
    THEN [ops |-> Append(st.ops, [kind |-> "text", x |-> st.x, y |-> y,
                                  value |-> token.value, font |-> f]),
          x |-> st.x + get_text_size(token.value, f),
          cache |-> st.cache]
    ELSE LET loaded == load_mana_symbol(token.value, size, files, st.cache)
             symbol_y == y + FloorDiv(FontAscent(f) - size, 2)
         IN  [ops |-> IF loaded.value # NoValue
                      THEN Append(st.ops, [kind |-> "symbol", x |-> st.x, y |-> symbol_y,
                                           value |-> token.value, size |-> size])
                      ELSE st.ops,
              x |-> AfterSymbol(st.x, size),
              cache |-> loaded.cache]

RECURSIVE DrawTokens(_, _, _, _, _, _)
DrawTokens(st, toks, y, f, size, files) ==
    IF toks = <<>> THEN st
    ELSE DrawTokens(DrawToken(st, Head(toks), y, f, size, files),
                    Tail(toks), y, f, size, files)

draw_token_line(toks, x, y, f, size, files, cache) ==
    DrawTokens([ops |-> <<>>, x |-> x, cache |-> cache], toks, y, f, size, files)

(***************************************************************************)
(* draw_mana_cost (lines 391-426).  b is the bounds in pixels:             *)
(* b.size = int(bounds['size'] * CARD_HEIGHT * 0.78),                      *)
(* b.right = int((bounds['x'] + bounds['width']) * CARD_WIDTH),            *)
(* b.y = int(bounds['y'] * CARD_HEIGHT).  The result is [ops, slots, cache]*)
(* where slots lists the cursor x at the start of every loop iteration.    *)
(***************************************************************************)
\* No gutter between symbols.
ManaSpacingNone(symbol_size) == 0

\* Line 410.
ManaSpacing(symbol_size) == symbol_size \div 10

\* Line 413.
ManaTotalWidth(n, symbol_size) == n * symbol_size + (n - 1) * ManaSpacing(symbol_size)

\* Line 419.
ManaStartX(b, n) == b.right - ManaTotalWidth(n, b.size)

\* Line 426.
ManaAdvance(x, symbol_size) == x + symbol_size + ManaSpacing(symbol_size)

RECURSIVE DrawSymbols(_, _, _, _)
DrawSymbols(st, symbols, b, files) ==
    IF symbols = <<>> THEN st
    ELSE LET loaded == load_mana_symbol(Head(symbols), b.size, files, st.cache)
         IN  DrawSymbols(
                 [ops |-> IF loaded.value # NoValue
                          THEN Append(st.ops, [kind |-> "symbol", x |-> st.x, y |-> b.y,
                                               value |-> Head(symbols), size |-> b.size])
                          ELSE st.ops,
                  slots |-> Append(st.slots, st.x),
                  x |-> ManaAdvance(st.x, b.size),
                  cache |-> loaded.cache],
                 Tail(symbols), b, files)

draw_mana_cost(cost, b, files, cache) ==
    LET symbols == parse_mana_cost(cost)
    IN  IF symbols = <<>> THEN [ops |-> <<>>, slots |-> <<>>, x |-> 0, cache |-> cache]
        ELSE DrawSymbols([ops |-> <<>>, slots |-> <<>>, x |-> ManaStartX(b, Len(symbols)),
                          cache |-> cache],
                         symbols, b, files)

(***************************************************************************)
(* draw_rules_text (lines 581-725).  b is the bounds in pixels: b.x, b.y,  *)
(* b.width, b.height are lines 607-610 and b.size is base_size (line 613). *)
(***************************************************************************)
\* min_size = int(base_size * 0.5) (line 615).
MinSize(base_size) == base_size \div 2

\* mana_size = int(font_size * 0.85) (lines 633, 696).
ManaSize(size) == (size * 85) \div 100

\* line_height = int(font_size * 1.2) (lines 635, 697).
LineHeight(size) == (size * 12) \div 10

\* A whole line height between paragraphs.
ParagraphSpacingFullLine(line_height) == line_height

\* int(line_height * 0.3) (lines 656, 660, 662, 708).
ParagraphSpacing(line_height) == (line_height * 3) \div 10

\* divider_width = int(bounds_width * 0.3) (line 625).
DividerWidth(bounds_width) == (bounds_width * 3) \div 10

\* load_flavor_divider (lines 564-578): the height of the scaled bar, or
\* NoValue when bar.png is missing.  asset is the bitmap's [width, height].
load_flavor_divider(width, asset) ==
    IF asset = NoValue THEN NoValue
    ELSE LET new_height == (width * asset.height) \div asset.width
         IN  [width |-> width, height |-> IF new_height < 4 THEN 4 ELSE new_height]

\* Lines 626-627.
DividerOf(b, flavor, asset) ==
    IF flavor # <<>> THEN load_flavor_divider(DividerWidth(b.width), asset) ELSE NoValue

DividerHeight(divider) == IF divider # NoValue THEN divider.height ELSE 8

\* paragraphs = oracle_text.split('\n') if oracle_text else [] (line 622).
Paragraphs(oracle) == IF oracle # <<>> THEN Split(oracle, "\n") ELSE <<>>

BlockLine(line_type, line_tokens, line_width) ==
    [type |-> line_type, tokens |-> line_tokens, width |-> line_width]

\* Lines 644-654: the block entries of one paragraph's wrapped lines.
RegularLines(wrapped, f, size) ==
    [i \in 1..Len(wrapped) |->
        BlockLine("regular", wrapped[i], measure_tokens(wrapped[i], f, size))]

\* Lines 640-656: the oracle paragraphs from para_idx on (1-based), added to
\* the block blk = [all_lines, total_height].
RECURSIVE OracleBlock(_, _, _, _, _, _)
OracleBlock(blk, paragraphs, para_idx, f, bounds_width, size) ==
    IF para_idx > Len(paragraphs) THEN blk
    ELSE LET para == paragraphs[para_idx]
             wrapped == wrap_tokens(parse_text_with_mana(para), f, bounds_width,
                                    ManaSize(size))
             line_height == LineHeight(size)
             spaced == IF para_idx < Len(paragraphs)
                       THEN ParagraphSpacing(line_height) ELSE 0
             next == IF ~IsBlank(para)
                     THEN [all_lines |-> blk.all_lines
                                         \o RegularLines(wrapped, f, ManaSize(size)),
                           total_height |-> blk.total_height
                                            + Len(wrapped) * line_height + spaced]
                     ELSE blk
         IN  OracleBlock(next, paragraphs, para_idx + 1, f, bounds_width, size)

\* flavor_text.split() (line 666): the maximal runs of non-whitespace.
RECURSIVE SplitWhitespace(_, _)
SplitWhitespace(s, piece) ==
    IF s = <<>> THEN (IF piece = <<>> THEN <<>> ELSE <<piece>>)
    ELSE IF Head(s) \in Whitespace
    THEN (IF piece = <<>> THEN <<>> ELSE <<piece>>) \o SplitWhitespace(Tail(s), <<>>)
    ELSE SplitWhitespace(Tail(s), Append(piece, Head(s)))

\* ' '.join(words)
RECURSIVE JoinSpace(_)
JoinSpace(words) ==
    IF words = <<>> THEN <<>>
    ELSE IF Len(words) = 1 THEN words[1]
    ELSE words[1] \o <<" ">> \o JoinSpace(Tail(words))

\* Lines 665-678: st = [lines, current_line].
RECURSIVE FlavorWrap(_, _, _, _)
FlavorWrap(st, words, f, bounds_width) ==
    IF words = <<>>
    THEN (IF st.current_line # <<>>
          THEN Append(st.lines, JoinSpace(st.current_line)) ELSE st.lines)
    ELSE LET word == Head(words)
             test_line == JoinSpace(Append(st.current_line, word))
         IN  IF get_text_size(test_line, f) <= bounds_width
             THEN FlavorWrap([st EXCEPT !.current_line = Append(@, word)],
                             Tail(words), f, bounds_width)
             ELSE FlavorWrap(
                      [lines |-> IF st.current_line # <<>>
                                 THEN Append(st.lines, JoinSpace(st.current_line))
                                 ELSE st.lines,
                       current_line |-> <<word>>],
                      Tail(words), f, bounds_width)

\* Lines 680-683.
ItalicLines(flines, f) ==
    [i \in 1..Len(flines) |->
        BlockLine("italic", <<TextToken("text", flines[i])>>, get_text_size(flines[i], f))]

\* Line 659: whether the flavor part, divider included, goes into the block.
HasFlavorPart(flavor) == flavor # <<>>

\* Lines 659-683: the flavor part added to the block.
FlavorBlock(blk, flavor, f, bounds_width, size, divider_height) ==
    IF HasFlavorPart(flavor)
    THEN LET line_height == LineHeight(size)
             flines == FlavorWrap([lines |-> <<>>, current_line |-> <<>>],
                                  SplitWhitespace(flavor, <<>>), f, bounds_width)
         IN  [all_lines |-> blk.all_lines \o <<BlockLine("divider", <<>>, 0)>>
                            \o ItalicLines(flines, f),
              total_height |-> blk.total_height + ParagraphSpacing(line_height)
                               + divider_height + ParagraphSpacing(line_height)
                               + Len(flines) * line_height]
    ELSE blk

\* Lines 631-683: the block of one candidate size, built from scratch.
BuildBlock(oracle, flavor, b, size, regular_font, italic_font, divider_height) ==
    FlavorBlock(
        OracleBlock([all_lines |-> <<>>, total_height |-> 0],
                    Paragraphs(oracle), 1, regular_font, b.width, size),
        flavor, italic_font, b.width, size, divider_height)

\* Line 685.
BlockFits(height, bounds_height) == height <= bounds_height

\* Line 688.
NextCandidate(size) == size - 2

\* Line 630.
LoopRuns(size, min_size) == size >= min_size

\* Lines 690-725: the render loop.  st = [ops, y, cache].
RECURSIVE RenderUnits(_, _, _, _, _, _, _, _)
RenderUnits(st, units, b, size, regular_font, italic_font, divider, files) ==
    IF units = <<>> THEN st
    ELSE LET u == Head(units)
             line_height == LineHeight(size)
             f == IF u.type = "italic" THEN italic_font ELSE regular_font
             x == IF u.type = "italic" THEN b.x + FloorDiv(b.width - u.width, 2) ELSE b.x
             line == draw_token_line(u.tokens, x, st.y, f, ManaSize(size), files, st.cache)
             next ==
                 IF u.type = "divider"
                 THEN [ops |-> IF divider # NoValue
                               THEN Append(st.ops,
                                        [kind |-> "divider",
                                         x |-> b.x + FloorDiv(b.width - DividerWidth(b.width), 2),
                                         y |-> st.y])
                               ELSE st.ops,
                       y |-> st.y + DividerHeight(divider) + ParagraphSpacing(line_height),
                       cache |-> st.cache]
                 ELSE [ops |-> st.ops \o line.ops,
                       y |-> st.y + line_height,
                       cache |-> line.cache]
         IN  RenderUnits(next, Tail(units), b, size, regular_font, italic_font,
                         divider, files)

\* y_offset = bounds_y + (bounds_height - total_height) // 2 (line 691).
YOffset(b, height) == b.y + FloorDiv(b.height - height, 2)

(***************************************************************************)
(* draw_text_element (lines 728-796).  b is the element's bounds in pixels *)
(* with its style: [x, y, width, height, size, font, align, one_line,      *)
(* shadow_x, shadow_y].                                                    *)
(***************************************************************************)
\* The test that is always true in place of HasText.
HasTextAlways(s) == TRUE

\* if not text: return (lines 743-744).
HasText(s) == s # <<>>

\* The height of the text's bounding box (line 388).
TextHeight(f) == f.size

\* A loop that runs down to one pixel.
ShrinkRunsAboveZero(size) == size > 0

\* while font_size > 10 (line 768).
ShrinkRuns(size) == size > 10

\* Lines 769-773: one iteration of the shrink loop.
\* st = [font_size, font, cache, tried, fits].
ShrinkStep(st, s, b, files) ==
    LET text_width == get_text_size(s, st.font)
        measured == Append(st.tried, [size |-> st.font_size, width |-> text_width])
        loaded == load_font(b.font, st.font_size - 2, files, st.cache)
    IN  IF text_width <= b.width
        THEN [st EXCEPT !.tried = measured, !.fits = TRUE]
        ELSE [font_size |-> st.font_size - 2, font |-> loaded.value,
              cache |-> loaded.cache, tried |-> measured, fits |-> FALSE]

\* Lines 767-773: the whole loop.
RECURSIVE ShrinkLoop(_, _, _, _)
ShrinkLoop(st, s, b, files) ==
    IF ShrinkRuns(st.font_size) /\ ~st.fits
    THEN ShrinkLoop(ShrinkStep(st, s, b, files), s, b, files)
    ELSE st

\* Lines 779-785.
AlignX(b, text_width) ==
    IF b.align = "right" THEN b.x + b.width - text_width
    ELSE IF b.align = "center" THEN b.x + FloorDiv(b.width - text_width, 2)
    ELSE b.x

\* draw_text_with_shadow (lines 362-380).
draw_text_with_shadow(s, x, y, f, sx, sy) ==
    (IF sx # 0 \/ sy # 0
     THEN <<[kind |-> "text", x |-> x + sx, y |-> y + sy, value |-> s, font |-> f]>>
     ELSE <<>>)
    \o <<[kind |-> "text", x |-> x, y |-> y, value |-> s, font |-> f]>>

\* Lines 774-796: measure at the final font, place and draw.
PlaceText(s, f, b) ==
    draw_text_with_shadow(s, AlignX(b, get_text_size(s, f)),
                          b.y + FloorDiv(b.height - TextHeight(f), 2),
                          f, b.shadow_x, b.shadow_y)

\* The whole function: [ops, font_size, cache].
draw_text_element(s, b, files, cache) ==
    IF ~HasText(s) THEN [ops |-> <<>>, font_size |-> 0, cache |-> cache]
    ELSE LET loaded == load_font(b.font, b.size, files, cache)
             st0 == [font_size |-> b.size, font |-> loaded.value,
                     cache |-> loaded.cache, tried |-> <<>>, fits |-> FALSE]
             st == IF b.one_line THEN ShrinkLoop(st0, s, b, files) ELSE st0
         IN  [ops |-> PlaceText(s, st.font, b), font_size |-> st.font_size,
              cache |-> st.cache]

(***************************************************************************)
(* draw_rules_text as one call (lines 581-725).                            *)
(***************************************************************************)
\* Lines 630-688: one iteration of the auto-fit loop.
\* st = [font_size, all_lines, total_height, cache, fits].
FitStep(st, oracle, flavor, b, asset, files) ==
    LET regular == load_font("mplantin", st.font_size, files, st.cache)
        italic == load_font("mplantini", st.font_size, files, regular.cache)
        divider == DividerOf(b, flavor, asset)
        blk == BuildBlock(oracle, flavor, b, st.font_size,
                          regular.value, italic.value, DividerHeight(divider))
        fits == BlockFits(blk.total_height, b.height)
    IN  [font_size |-> IF fits THEN st.font_size ELSE NextCandidate(st.font_size),
         all_lines |-> blk.all_lines, total_height |-> blk.total_height,
         cache |-> italic.cache, fits |-> fits]

RECURSIVE FitLoop(_, _, _, _, _, _)
FitLoop(st, oracle, flavor, b, asset, files) ==
    IF LoopRuns(st.font_size, MinSize(b.size)) /\ ~st.fits
    THEN FitLoop(FitStep(st, oracle, flavor, b, asset, files),
                 oracle, flavor, b, asset, files)
    ELSE st

\* Lines 690-725: load the fonts at font_size, centre the block and draw it.
\* The result is [ops, y, font_cache, mana_cache].
RenderBlock(units, height, size, flavor, b, asset, files, symbols, fcache, mcache) ==
    LET regular == load_font("mplantin", size, files, fcache)
        italic == load_font("mplantini", size, files, regular.cache)
        out == RenderUnits([ops |-> <<>>, y |-> YOffset(b, height), cache |-> mcache],
                           units, b, size, regular.value, italic.value,
                           DividerOf(b, flavor, asset), symbols)
    IN  [ops |-> out.ops, y |-> out.y, font_cache |-> italic.cache,
         mana_cache |-> out.cache]

draw_rules_text(oracle, flavor, b, asset, files, symbols, fcache, mcache) ==
    IF oracle = <<>> /\ flavor = <<>>
    THEN [ops |-> <<>>, y |-> 0, font_cache |-> fcache, mana_cache |-> mcache]
    ELSE LET fit == FitLoop([font_size |-> b.size, all_lines |-> <<>>,
                             total_height |-> 0, cache |-> fcache, fits |-> FALSE],
                            oracle, flavor, b, asset, files)
         IN  RenderBlock(fit.all_lines, fit.total_height, fit.font_size, flavor, b,
                         asset, files, symbols, fit.cache, mcache)

(***************************************************************************)
(* create_card's handling of the art layer (lines 845-867).                *)
(***************************************************************************)
\* Lines 856-867: the rectangle of the canvas the art is pasted on, as
\* [x, y, width, height], after the crop for negative coordinates; left and
\* top are the columns and rows the crop removed on those sides.
PasteArt(p) ==
    LET crop_left == 0 - Min(0, p.x)
        crop_top == 0 - Min(0, p.y)
        crop_right == Min(p.width, CARD_WIDTH - p.x)
        crop_bottom == Min(p.height, CARD_HEIGHT - p.y)
    IN  IF p.x < 0 \/ p.y < 0
        THEN [kind |-> "paste", x |-> Max(0, p.x), y |-> Max(0, p.y),
              width |-> crop_right - crop_left, height |-> crop_bottom - crop_top,
              left |-> crop_left, top |-> crop_top]
        ELSE [kind |-> "paste", x |-> Max(0, p.x), y |-> Max(0, p.y),
              width |-> p.width, height |-> p.height, left |-> 0, top |-> 0]

\* The canvas after a renderer that performed the draw operations ops.
Log(cv, region, ops) ==
    IF ops = <<>> THEN cv ELSE Append(cv, [region |-> region, ops |-> ops])

\* dict.get(key, '') on the card data (lines 877-883).
Get(data, key) == IF key \in DOMAIN data THEN data[key] ELSE <<>>

\* Line 904: power and toughness.
HasPT(power, toughness) == power # <<>> /\ toughness # <<>>

\* f"{power}/{toughness}" (line 905).
PTText(power, toughness) == power \o <<"/">> \o toughness

\* f"Illus. {artist}" (line 910).
ArtistText(name) == <<"I", "l", "l", "u", "s", ".", " ">> \o name

\* The f-string of line 916: the trademark sign, " & ", the copyright sign,
\* the year and " Wizards of the Coast, Inc.".  The two signs are written
\* "^" and "@".
CopyrightText(year) ==
    <<"^", " ", "&", " ", "@", " ">> \o year \o
    <<" ", "W", "i", "z", "a", "r", "d", "s", " ", "o", "f", " ", "t", "h", "e", " ",
      "C", "o", "a", "s", "t", ",", " ", "I", "n", "c", ".">>

\* ---- pure functions end ----

(***************************************************************************)
(* draw_rules_text as a process: SpecRules enters the function, runs the   *)
(* auto-fit loop one candidate size per step, and renders.                 *)
(***************************************************************************)
RulesAlphabet == {"a", " ", "\n", "{", "}"}

\* "First line.\nSecond line."
ExampleOracle ==
    <<"F", "i", "r", "s", "t", " ", "l", "i", "n", "e", ".", "\n",
      "S", "e", "c", "o", "n", "d", " ", "l", "i", "n", "e", ".">>

\* "a {a} a\naa a"
LongOracle == <<"a", " ", "{", "a", "}", " ", "a", "\n", "a", "a", " ", "a">>

OracleTexts == Strings(RulesAlphabet, MaxOracleLen) \cup {ExampleOracle, LongOracle}

FlavorTexts == {<<>>, <<"a">>, <<"a", " ", "a", "a">>}

\* TEXT_BOUNDS['rules'] in pixels (lines 55-58 through lines 607-613).
RulesBounds == [x |-> 192, y |-> 1274, width |-> 1116, height |-> 572, size |-> 75]

\* The boxes draw_rules_text is run with: the card's own and small ones in
\* which short texts wrap, shrink and overflow.
RulesBoxes ==
    {RulesBounds, [x |-> 10, y |-> 20, width |-> 200, height |-> 30, size |-> 8]}
    \cup {[x |-> 10, y |-> 20, width |-> w, height |-> h, size |-> s] :
            w \in {8, 20}, h \in {4, 16}, s \in {8, 9}}

\* bar.png: missing, or a 100 x 2 pixel bitmap.
BarAssets == {NoValue, [width |-> 100, height |-> 2]}

FontNames == {"mplantin", "mplantini", "goudymedieval"}

RenderIdle ==
    /\ oracle_text = <<>> /\ flavor_text = <<>> /\ bounds = NoValue /\ bar = NoValue
    /\ font_size = 0 /\ total_height = 0 /\ all_lines = <<>> /\ tried = <<>>
    /\ drawn = <<>> /\ y_end = 0 /\ slots = <<>> /\ cursor = 0
    /\ render_pc = "idle"

CardIdle ==
    /\ card_data = <<>> /\ artist = <<>> /\ border_file = FALSE
    /\ canvas = <<>> /\ card_pc = "idle"

EnvIdle ==
    /\ font_files = FontNames /\ symbol_files = {}
    /\ font_cache = EmptyCache /\ mana_cache = EmptyCache

ArtSizes ==
    ((1..MaxArt) \X (1..MaxArt))
    \cup {<<397 * k, 318 * k>> : k \in 1..MaxArtScale}

TextIdle ==
    /\ text = <<>> /\ tokens = <<>> /\ font = NoValue /\ max_width = 0
    /\ mana_size = 0 /\ lines = <<>> /\ text_pc = "idle"

ArtIdle == art_size = <<1, 1>> /\ placement = NoValue /\ art_pc = "idle"

CallIdle == request = <<>> /\ reply = <<>>

InitArt ==
    /\ art_size \in ArtSizes
    /\ placement = NoValue
    /\ art_pc = "start"
    /\ TextIdle /\ EnvIdle /\ RenderIdle /\ CardIdle
    /\ CallIdle

\* create_card, line 845: x, y, width, height = calculate_art_placement(art)
CalculateArtPlacement ==
    /\ art_pc = "start"
    /\ placement' = calculate_art_placement(art_size[1], art_size[2])
    /\ art_pc' = "placed"
    /\ UNCHANGED <<art_size, textVars, envVars, renderVars, cardVars>>
    /\ UNCHANGED callVars

\* create_card, lines 849-867: resize the art, crop it and paste it.
CropAndPasteArt ==
    /\ art_pc = "placed"
    /\ canvas' = Log(canvas, "art", <<PasteArt(placement)>>)
    /\ art_pc' = "pasted"
    /\ UNCHANGED <<art_size, placement, card_data, artist, border_file, card_pc,
                   textVars, envVars, renderVars>>
    /\ UNCHANGED callVars

NextArt == CalculateArtPlacement \/ CropAndPasteArt

SpecArt == InitArt /\ [][NextArt]_vars

(***************************************************************************)
(* The lexer and the line breaker on their own: SpecLex runs               *)
(* parse_text_with_mana on every short string, SpecWrap runs wrap_tokens   *)
(* on the tokens of every short string at several font sizes and widths.   *)
(***************************************************************************)
LexAlphabet == {"{", "}", "T", " "}
WrapAlphabet == {"{", "}", "a", " "}
WrapFontSizes == {2, 4, 12}

\* "{T}: Add {G}{G}"
ExampleText ==
    <<"{", "T", "}", ":", " ", "A", "d", "d", " ", "{", "G", "}", "{", "G", "}">>

InitLex ==
    /\ text \in Strings(LexAlphabet, MaxLexLen) \cup {ExampleText}
    /\ tokens = <<>> /\ font = NoValue /\ max_width = 0 /\ mana_size = 0
    /\ lines = <<>> /\ text_pc = "start"
    /\ ArtIdle /\ EnvIdle /\ RenderIdle /\ CardIdle
    /\ CallIdle

InitWrap ==
    /\ text \in Strings(WrapAlphabet, MaxWrapLen) \cup {ExampleText}
    /\ font \in {FontHandle("mplantin", s) : s \in WrapFontSizes}
    /\ mana_size \in {(font.size * 85) \div 100, 10}
    /\ max_width \in 0..MaxWrapWidth
    /\ tokens = <<>> /\ lines = <<>> /\ text_pc = "start"
    /\ ArtIdle /\ EnvIdle /\ RenderIdle /\ CardIdle
    /\ CallIdle

\* tokens = parse_text_with_mana(para) (line 642)
ParseTextWithMana ==
    /\ text_pc = "start"
    /\ tokens' = parse_text_with_mana(text)
    /\ text_pc' = "lexed"
    /\ UNCHANGED <<text, font, max_width, mana_size, lines, artVars, envVars, renderVars, cardVars>>
    /\ UNCHANGED callVars

\* wrapped_lines = wrap_tokens(tokens, regular_font, bounds_width, mana_size, draw)
\* (line 643)
WrapTokens ==
    /\ text_pc = "lexed"
    /\ lines' = wrap_tokens(tokens, font, max_width, mana_size)
    /\ text_pc' = "wrapped"
    /\ UNCHANGED <<text, tokens, font, max_width, mana_size, artVars, envVars, renderVars, cardVars>>
    /\ UNCHANGED callVars

NextLex == ParseTextWithMana
NextWrap == ParseTextWithMana \/ WrapTokens

SpecLex == InitLex /\ [][NextLex]_vars
SpecWrap == InitWrap /\ [][NextWrap]_vars

InitRules ==
    /\ oracle_text \in OracleTexts
    /\ flavor_text \in FlavorTexts
    /\ bounds \in RulesBoxes
    /\ bar \in BarAssets
    /\ font_files = FontNames
    /\ symbol_files \in {{}, {<<"a">>}}
    /\ font_cache = EmptyCache /\ mana_cache = EmptyCache
    /\ font_size = 0 /\ total_height = 0 /\ all_lines = <<>> /\ tried = <<>>
    /\ drawn = <<>> /\ y_end = 0 /\ slots = <<>> /\ cursor = 0
    /\ render_pc = "start"
    /\ ArtIdle /\ TextIdle /\ CardIdle
    /\ CallIdle

\* Lines 601-627: return at once when there is nothing to draw, else start
\* the search at the base size.
RulesEnter ==
    /\ render_pc = "start"
    /\ IF oracle_text = <<>> /\ flavor_text = <<>>
       THEN render_pc' = "done" /\ UNCHANGED font_size
       ELSE render_pc' = "loop" /\ font_size' = bounds.size
    /\ UNCHANGED <<oracle_text, flavor_text, bounds, bar, total_height, all_lines,
                   tried, drawn, y_end, slots, cursor, envVars, artVars, textVars,
                   cardVars>>
    /\ UNCHANGED callVars

\* Lines 630-688: one iteration of the auto-fit loop, and the loop's exit
\* when the next candidate is below min_size.
RulesCandidate ==
    /\ render_pc = "loop"
    /\ LoopRuns(font_size, MinSize(bounds.size))
    /\ LET st == FitStep([font_size |-> font_size, all_lines |-> all_lines,
                          total_height |-> total_height, cache |-> font_cache,
                          fits |-> FALSE],
                         oracle_text, flavor_text, bounds, bar, font_files)
       IN  /\ font_cache' = st.cache
           /\ all_lines' = st.all_lines
           /\ total_height' = st.total_height
           /\ tried' = Append(tried, [size |-> font_size, height |-> st.total_height])
           /\ font_size' = st.font_size
           /\ render_pc' = IF ~st.fits /\ LoopRuns(st.font_size, MinSize(bounds.size))
                           THEN "loop" ELSE "render"
    /\ UNCHANGED <<oracle_text, flavor_text, bounds, bar, drawn, y_end, slots, cursor,
                   font_files, symbol_files, mana_cache, artVars, textVars, cardVars>>
    /\ UNCHANGED callVars

\* Lines 690-725: centre the block and draw its units.
RulesRender ==
    /\ render_pc = "render"
    /\ LET out == RenderBlock(all_lines, total_height, font_size, flavor_text, bounds,
                              bar, font_files, symbol_files, font_cache, mana_cache)
       IN  /\ font_cache' = out.font_cache
           /\ mana_cache' = out.mana_cache
           /\ drawn' = out.ops
           /\ y_end' = out.y
    /\ render_pc' = "done"
    /\ UNCHANGED <<oracle_text, flavor_text, bounds, bar, font_size, total_height,
                   all_lines, tried, slots, cursor, font_files, symbol_files,
                   artVars, textVars, cardVars>>
    /\ UNCHANGED callVars

NextRules == RulesEnter \/ RulesCandidate \/ RulesRender

SpecRules == InitRules /\ [][NextRules]_vars

(***************************************************************************)
(* draw_text_element as a process: SpecElem enters the function, runs the  *)
(* one-line shrink loop one candidate size per step, and draws.            *)
(***************************************************************************)
\* TEXT_BOUNDS in pixels, with the style keys draw_text_element reads
\* (lines 38-73 through lines 749-761 and 779).
TitleBounds ==
    [x |-> 124, y |-> 65, width |-> 1252, height |-> 86, size |-> 86,
     font |-> "goudymedieval", align |-> "left", one_line |-> TRUE,
     shadow_x |-> 3, shadow_y |-> 3]
TypeBounds ==
    [x |-> 124, y |-> 1152, width |-> 1252, height |-> 114, size |-> 67,
     font |-> "mplantin", align |-> "left", one_line |-> TRUE,
     shadow_x |-> 3, shadow_y |-> 3]
PTBounds ==
    [x |-> 1230, y |-> 1902, width |-> 205, height |-> 90, size |-> 90,
     font |-> "mplantin", align |-> "center", one_line |-> TRUE,
     shadow_x |-> 3, shadow_y |-> 3]
ArtistBounds ==
    [x |-> 150, y |-> 1894, width |-> 1200, height |-> 56, size |-> 56,
     font |-> "mplantin", align |-> "left", one_line |-> TRUE,
     shadow_x |-> 3, shadow_y |-> 3]
CopyrightBounds ==
    [x |-> 150, y |-> 1955, width |-> 1200, height |-> 36, size |-> 36,
     font |-> "mplantin", align |-> "left", one_line |-> TRUE,
     shadow_x |-> 2, shadow_y |-> 2]

\* The boxes draw_text_element is run with: the card's own and small ones.
ElemBoxes ==
    {TitleBounds, TypeBounds, PTBounds, ArtistBounds, CopyrightBounds}
    \cup {[x |-> 10, y |-> 20, width |-> w, height |-> 12, size |-> s,
           font |-> "mplantin", align |-> a, one_line |-> o,
           shadow_x |-> sx, shadow_y |-> 0] :
            w \in {20, 40}, s \in {9, 10, 11, 12, 13, 16},
            a \in {"left", "center", "right"}, o \in BOOLEAN, sx \in {0, 1}}

\* A type line of 120 characters.
LongTypeLine == [i \in 1..120 |-> "a"]

ElemTexts == Strings({"a", " "}, MaxElemLen) \cup {LongTypeLine}

InitElem ==
    /\ text \in ElemTexts
    /\ bounds \in ElemBoxes
    /\ font_files \in {FontNames, {}}
    /\ symbol_files = {} /\ font_cache = EmptyCache /\ mana_cache = EmptyCache
    /\ tokens = <<>> /\ font = NoValue /\ max_width = 0 /\ mana_size = 0
    /\ lines = <<>> /\ text_pc = "idle"
    /\ oracle_text = <<>> /\ flavor_text = <<>> /\ bar = NoValue
    /\ font_size = 0 /\ total_height = 0 /\ all_lines = <<>> /\ tried = <<>>
    /\ drawn = <<>> /\ y_end = 0 /\ slots = <<>> /\ cursor = 0
    /\ render_pc = "enter"
    /\ ArtIdle /\ CardIdle
    /\ CallIdle

\* Lines 743-767: return at once on an empty text, else load the font at the
\* base size and enter the shrink loop if the element is one_line.
ElemEnter ==
    /\ render_pc = "enter"
    /\ IF ~HasText(text)
       THEN render_pc' = "done" /\ UNCHANGED <<font_size, font, font_cache>>
       ELSE LET loaded == load_font(bounds.font, bounds.size, font_files, font_cache)
            IN  /\ font_size' = bounds.size
                /\ font' = loaded.value
                /\ font_cache' = loaded.cache
                /\ render_pc' = IF bounds.one_line /\ ShrinkRuns(bounds.size)
                                THEN "shrink" ELSE "place"
    /\ UNCHANGED <<text, tokens, max_width, mana_size, lines, text_pc,
                   oracle_text, flavor_text, bounds, bar, total_height, all_lines,
                   tried, drawn, y_end, slots, cursor,
                   font_files, symbol_files, mana_cache, artVars, cardVars>>
    /\ UNCHANGED callVars

\* Lines 768-773: one iteration of the shrink loop, and the loop's exit.
ElemShrink ==
    /\ render_pc = "shrink"
    /\ ShrinkRuns(font_size)
    /\ LET st == ShrinkStep([font_size |-> font_size, font |-> font,
                             cache |-> font_cache, tried |-> tried, fits |-> FALSE],
                            text, bounds, font_files)
       IN  /\ font_size' = st.font_size
           /\ font' = st.font
           /\ font_cache' = st.cache
           /\ tried' = st.tried
           /\ render_pc' = IF ~st.fits /\ ShrinkRuns(st.font_size)
                           THEN "shrink" ELSE "place"
    /\ UNCHANGED <<text, tokens, max_width, mana_size, lines, text_pc,
                   oracle_text, flavor_text, bounds, bar, total_height, all_lines,
                   drawn, y_end, slots, cursor,
                   font_files, symbol_files, mana_cache, artVars, cardVars>>
    /\ UNCHANGED callVars

\* Lines 774-796: measure at the final font, place and draw.
ElemPlace ==
    /\ render_pc = "place"
    /\ drawn' = PlaceText(text, font, bounds)
    /\ render_pc' = "done"
    /\ UNCHANGED <<textVars, oracle_text, flavor_text, bounds, bar, font_size,
                   total_height, all_lines, tried, y_end, slots, cursor,
                   envVars, artVars, cardVars>>
    /\ UNCHANGED callVars

NextElem == ElemEnter \/ ElemShrink \/ ElemPlace

SpecElem == InitElem /\ [][NextElem]_vars

(***************************************************************************)
(* The two shrink loops as one process: SpecLoops starts either            *)
(* draw_rules_text or draw_text_element and runs it to its return.  The    *)
(* program is sequential and every statement finishes, so a step that can  *)
(* be taken is taken.                                                      *)
(***************************************************************************)
LoopOracles == {<<>>, <<"a">>, ExampleOracle, LongOracle}

LoopTexts == {<<>>, <<"a">>, <<"a", " ", "a", "a">>, LongTypeLine}

InitLoops ==
    /\ \/ /\ oracle_text \in LoopOracles
          /\ flavor_text \in FlavorTexts
          /\ bounds \in RulesBoxes
          /\ bar \in BarAssets
          /\ font_files = FontNames
          /\ render_pc = "start"
          /\ TextIdle
       \/ /\ text \in LoopTexts
          /\ bounds \in ElemBoxes
          /\ font_files \in {FontNames, {}}
          /\ oracle_text = <<>> /\ flavor_text = <<>> /\ bar = NoValue
          /\ tokens = <<>> /\ font = NoValue /\ max_width = 0 /\ mana_size = 0
          /\ lines = <<>> /\ text_pc = "idle"
          /\ render_pc = "enter"
    /\ symbol_files = {} /\ font_cache = EmptyCache /\ mana_cache = EmptyCache
    /\ font_size = 0 /\ total_height = 0 /\ all_lines = <<>> /\ tried = <<>>
    /\ drawn = <<>> /\ y_end = 0 /\ slots = <<>> /\ cursor = 0
    /\ ArtIdle /\ CardIdle
    /\ CallIdle

NextLoops == NextRules \/ NextElem

SpecLoops == InitLoops /\ [][NextLoops]_vars /\ WF_vars(NextLoops)

(***************************************************************************)
(* The two symbol renderers on their own: SpecMana runs draw_mana_cost on  *)
(* a cost string, or parse_text_with_mana and draw_token_line on the same  *)
(* string as a line of text, with some symbol files missing.               *)
(***************************************************************************)
\* TEXT_BOUNDS['mana'] in pixels (lines 39-42 through lines 409, 416, 417),
\* and the left edge and line top the string is drawn at as a line of text.
ManaBounds == [size |-> 72, right |-> 1386, y |-> 76, x |-> 160]

ManaBoxes == {ManaBounds, [size |-> 9, right |-> 100, y |-> 5, x |-> 0],
              [size |-> 20, right |-> 40, y |-> 5, x |-> 7]}

SymbolNames == {"U", "2", "W"}

\* The cost string of a list of symbols: "{2}{U}{U}" for <<"2", "U", "U">>.
RECURSIVE CostOf(_)
CostOf(symbols) ==
    IF symbols = <<>> THEN <<>>
    ELSE <<"{", Head(symbols), "}">> \o CostOf(Tail(symbols))

\* "{2}{U}{U}"
ExampleCost == CostOf(<<"2", "U", "U">>)

ManaCosts ==
    {CostOf(q) : q \in Strings(SymbolNames, MaxCostSymbols)}
    \cup Strings({"{", "}", "U", " "}, 3)

InitMana ==
    /\ text \in ManaCosts
    /\ bounds \in ManaBoxes
    /\ font \in {FontHandle("mplantin", s) : s \in {12, 75}}
    /\ mana_size = ManaSize(font.size)
    /\ symbol_files \in SUBSET {<<"u">>, <<"2">>}
    /\ font_files = FontNames
    /\ font_cache = EmptyCache /\ mana_cache = EmptyCache
    /\ tokens = <<>> /\ max_width = 0 /\ lines = <<>> /\ text_pc = "idle"
    /\ oracle_text = <<>> /\ flavor_text = <<>> /\ bar = NoValue
    /\ font_size = 0 /\ total_height = 0 /\ all_lines = <<>> /\ tried = <<>>
    /\ drawn = <<>> /\ y_end = 0 /\ slots = <<>> /\ cursor = 0
    /\ render_pc = "start"
    /\ ArtIdle /\ CardIdle
    /\ CallIdle

\* draw_mana_cost(card, mana_cost, bounds) (lines 391-426).
DrawManaCost ==
    /\ render_pc = "start"
    /\ LET out == draw_mana_cost(text, bounds, symbol_files, mana_cache)
       IN  /\ drawn' = out.ops
           /\ slots' = out.slots
           /\ cursor' = out.x
           /\ mana_cache' = out.cache
    /\ render_pc' = "cost"
    /\ UNCHANGED <<textVars, oracle_text, flavor_text, bounds, bar, font_size,
                   total_height, all_lines, tried, y_end,
                   font_files, symbol_files, font_cache, artVars, cardVars>>
    /\ UNCHANGED callVars

\* draw_token_line(card, draw, parse_text_with_mana(text), x, y, font, mana_size)
\* (lines 535-561).
DrawTokenLine ==
    /\ render_pc = "start"
    /\ tokens' = parse_text_with_mana(text)
    /\ LET out == draw_token_line(tokens', bounds.x, bounds.y, font, mana_size,
                                  symbol_files, mana_cache)
       IN  /\ drawn' = out.ops
           /\ cursor' = out.x
           /\ mana_cache' = out.cache
    /\ render_pc' = "line"
    /\ UNCHANGED <<text, font, max_width, mana_size, lines, text_pc,
                   oracle_text, flavor_text, bounds, bar, font_size,
                   total_height, all_lines, tried, y_end, slots,
                   font_files, symbol_files, font_cache, artVars, cardVars>>
    /\ UNCHANGED callVars

NextMana == DrawManaCost \/ DrawTokenLine

SpecMana == InitMana /\ [][NextMana]_vars

(***************************************************************************)
(* create_card (lines 805-928) as a process: one step per layer or region, *)
(* in program order.  canvas is the list of [region, ops] of the draws     *)
(* performed on the card, in order.                                        *)
(***************************************************************************)
CardArtSizes == {<<397, 318>>, <<120, 60>>, <<60, 120>>}

CardTexts == {<<>>, <<"a">>}

\* The dictionaries create_card is run with: every combination of empty and
\* non-empty fields, the offline dictionary {'name': ...} of main (line 971),
\* and the empty dictionary.
CardData ==
    [name : CardTexts, mana_cost : {<<>>, ExampleCost, <<"a">>},
     type_line : CardTexts, oracle_text : CardTexts, flavor_text : CardTexts,
     power : {<<>>, <<"1">>}, toughness : {<<>>, <<"1">>}]
    \cup {[name |-> <<"a">>], <<>>}

Artists == {<<"U", "n", "k", "n", "o", "w", "n">>, <<>>}

Years == {<<"2", "0", "2", "5">>, <<"2", "0", "2", "6">>}

InitCard ==
    /\ art_size \in CardArtSizes
    /\ placement = NoValue /\ art_pc = "idle"
    /\ card_data \in CardData
    /\ artist \in Artists
    /\ border_file \in BOOLEAN
    /\ canvas = <<>>
    /\ card_pc = "art"
    /\ font_files = FontNames
    /\ symbol_files \in {{}, {<<"u">>, <<"2">>}}
    /\ font_cache = EmptyCache /\ mana_cache = EmptyCache
    /\ bar = NoValue
    /\ oracle_text = <<>> /\ flavor_text = <<>> /\ bounds = NoValue
    /\ font_size = 0 /\ total_height = 0 /\ all_lines = <<>> /\ tried = <<>>
    /\ drawn = <<>> /\ y_end = 0 /\ slots = <<>> /\ cursor = 0
    /\ render_pc = "idle"
    /\ TextIdle
    /\ CallIdle

\* Lines 845-867: place the art, crop it and paste it on the new canvas.
CardArt ==
    /\ card_pc = "art"
    /\ placement' = calculate_art_placement(art_size[1], art_size[2])
    /\ canvas' = Log(canvas, "art", <<PasteArt(placement')>>)
    /\ card_pc' = "frame"
    /\ UNCHANGED <<art_size, art_pc, card_data, artist, border_file,
                   textVars, envVars, renderVars>>
    /\ UNCHANGED callVars

\* Line 870.
CardFrame ==
    /\ card_pc = "frame"
    /\ canvas' = Log(canvas, "frame", <<[kind |-> "composite"]>>)
    /\ card_pc' = "border"
    /\ UNCHANGED <<card_data, artist, border_file, artVars, textVars, envVars, renderVars>>
    /\ UNCHANGED callVars

\* Lines 873-874: the border, when its file exists (lines 834-836).
CardBorder ==
    /\ card_pc = "border"
    /\ canvas' = IF border_file THEN Log(canvas, "border", <<[kind |-> "composite"]>>)
                 ELSE canvas
    /\ card_pc' = "title"
    /\ UNCHANGED <<card_data, artist, border_file, artVars, textVars, envVars, renderVars>>
    /\ UNCHANGED callVars

\* Line 887.
CardTitle ==
    /\ card_pc = "title"
    /\ LET out == draw_text_element(Get(card_data, "name"), TitleBounds,
                                    font_files, font_cache)
       IN  canvas' = Log(canvas, "title", out.ops) /\ font_cache' = out.cache
    /\ card_pc' = "mana"
    /\ UNCHANGED <<card_data, artist, border_file, font_files, symbol_files,
                   mana_cache, artVars, textVars, renderVars>>
    /\ UNCHANGED callVars

\* Lines 890-892.
CardMana ==
    /\ card_pc = "mana"
    /\ IF Get(card_data, "mana_cost") # <<>>
       THEN LET out == draw_mana_cost(Get(card_data, "mana_cost"), ManaBounds,
                                      symbol_files, mana_cache)
            IN  canvas' = Log(canvas, "mana", out.ops) /\ mana_cache' = out.cache
       ELSE UNCHANGED <<canvas, mana_cache>>
    /\ card_pc' = "type"
    /\ UNCHANGED <<card_data, artist, border_file, font_files, symbol_files,
                   font_cache, artVars, textVars, renderVars>>
    /\ UNCHANGED callVars

\* Line 896.
CardType ==
    /\ card_pc = "type"
    /\ LET out == draw_text_element(Get(card_data, "type_line"), TypeBounds,
                                    font_files, font_cache)
       IN  canvas' = Log(canvas, "type", out.ops) /\ font_cache' = out.cache
    /\ card_pc' = "rules"
    /\ UNCHANGED <<card_data, artist, border_file, font_files, symbol_files,
                   mana_cache, artVars, textVars, renderVars>>
    /\ UNCHANGED callVars

\* Lines 899-901.
CardRules ==
    /\ card_pc = "rules"
    /\ IF Get(card_data, "oracle_text") # <<>> \/ Get(card_data, "flavor_text") # <<>>
       THEN LET out == draw_rules_text(Get(card_data, "oracle_text"),
                                       Get(card_data, "flavor_text"), RulesBounds, bar,
                                       font_files, symbol_files, font_cache, mana_cache)
            IN  /\ canvas' = Log(canvas, "rules", out.ops)
                /\ font_cache' = out.font_cache
                /\ mana_cache' = out.mana_cache
       ELSE UNCHANGED <<canvas, font_cache, mana_cache>>
    /\ card_pc' = "pt"
    /\ UNCHANGED <<card_data, artist, border_file, font_files, symbol_files,
                   artVars, textVars, renderVars>>
    /\ UNCHANGED callVars

\* Lines 904-907.
CardPT ==
    /\ card_pc = "pt"
    /\ IF HasPT(Get(card_data, "power"), Get(card_data, "toughness"))
       THEN LET out == draw_text_element(PTText(Get(card_data, "power"),
                                                Get(card_data, "toughness")),
                                         PTBounds, font_files, font_cache)
            IN  canvas' = Log(canvas, "pt", out.ops) /\ font_cache' = out.cache
       ELSE UNCHANGED <<canvas, font_cache>>
    /\ card_pc' = "artist"
    /\ UNCHANGED <<card_data, artist, border_file, font_files, symbol_files,
                   mana_cache, artVars, textVars, renderVars>>
    /\ UNCHANGED callVars

\* Lines 910-911.
CardArtist ==
    /\ card_pc = "artist"
    /\ LET out == draw_text_element(ArtistText(artist), ArtistBounds,
                                    font_files, font_cache)
       IN  canvas' = Log(canvas, "artist", out.ops) /\ font_cache' = out.cache
    /\ card_pc' = "copyright"
    /\ UNCHANGED <<card_data, artist, border_file, font_files, symbol_files,
                   mana_cache, artVars, textVars, renderVars>>
    /\ UNCHANGED callVars

\* Lines 914-917.
CardCopyright ==
    /\ card_pc = "copyright"
    /\ \E year \in Years :
          LET out == draw_text_element(CopyrightText(year), CopyrightBounds,
                                       font_files, font_cache)
          IN  canvas' = Log(canvas, "copyright", out.ops) /\ font_cache' = out.cache
    /\ card_pc' = "save"
    /\ UNCHANGED <<card_data, artist, border_file, font_files, symbol_files,
                   mana_cache, artVars, textVars, renderVars>>
    /\ UNCHANGED callVars

\* Lines 920-922.
CardSave ==
    /\ card_pc = "save"
    /\ card_pc' = "saved"
    /\ UNCHANGED <<card_data, artist, border_file, canvas,
                   artVars, textVars, envVars, renderVars>>
    /\ UNCHANGED callVars

NextCard ==
    \/ CardArt \/ CardFrame \/ CardBorder \/ CardTitle \/ CardMana \/ CardType
    \/ CardRules \/ CardPT \/ CardArtist \/ CardCopyright \/ CardSave

SpecCard == InitCard /\ [][NextCard]_vars

(***************************************************************************)
(* A rendering session: SpecSession calls draw_rules_text again and again  *)
(* in one process, with load_font calls of other renderers in between, so  *)
(* that every call after the first starts from the caches the earlier ones *)
(* left.  tried is not reset between the calls: it lists the candidate     *)
(* sizes of the whole session.                                             *)
(***************************************************************************)
\* The longest session, in candidate sizes tried.
MaxSessionCandidates == 3

SessionOracles == {<<>>, <<"a">>, LongOracle}

SessionBoxes ==
    {[x |-> 10, y |-> 20, width |-> 200, height |-> 30, size |-> 8],
     [x |-> 10, y |-> 20, width |-> 8, height |-> 4, size |-> 8],
     [x |-> 10, y |-> 20, width |-> 20, height |-> 16, size |-> 9]}

\* The sizes other renderers load "mplantin" at between two calls.
SessionSizes == {6}

InitSession ==
    /\ oracle_text \in SessionOracles
    /\ flavor_text \in {<<>>, <<"a">>}
    /\ bounds \in SessionBoxes
    /\ bar = [width |-> 100, height |-> 2]
    /\ font_files \in {FontNames, {"mplantin"}}
    /\ symbol_files = {<<"a">>}
    /\ font_cache = EmptyCache /\ mana_cache = EmptyCache
    /\ font_size = 0 /\ total_height = 0 /\ all_lines = <<>> /\ tried = <<>>
    /\ drawn = <<>> /\ y_end = 0 /\ slots = <<>> /\ cursor = 0
    /\ render_pc = "start"
    /\ ArtIdle /\ TextIdle /\ CardIdle
    /\ CallIdle

\* Lines 764 and 128-152: another renderer loads a font before the call.
SessionLoadFont ==
    /\ render_pc = "start"
    /\ \E size \in SessionSizes :
          font_cache' = load_font("mplantin", size, font_files, font_cache).cache
    /\ UNCHANGED <<renderVars, font_files, symbol_files, mana_cache, artVars,
                   textVars, cardVars>>
    /\ UNCHANGED callVars

\* The next call of draw_rules_text in the same process: new arguments, the
\* caches as the calls before left them.
SessionNextCall ==
    /\ render_pc = "done"
    /\ Len(tried) < MaxSessionCandidates
    /\ oracle_text' \in SessionOracles
    /\ flavor_text' \in {<<>>, <<"a">>}
    /\ bounds' \in SessionBoxes
    /\ font_size' = 0 /\ total_height' = 0 /\ all_lines' = <<>>
    /\ drawn' = <<>> /\ y_end' = 0
    /\ render_pc' = "start"
    /\ UNCHANGED <<bar, tried, slots, cursor, envVars, artVars, textVars, cardVars>>
    /\ UNCHANGED callVars

NextSession == NextRules \/ SessionLoadFont \/ SessionNextCall

SpecSession == InitSession /\ [][NextSession]_vars

(***************************************************************************)
(* The two caches on their own: SpecCache issues load_font and             *)
(* load_mana_symbol requests in any order, while font and symbol files     *)
(* appear and disappear on disk between the requests.                      *)
(***************************************************************************)
\* The longest sequence of requests.
MaxRequests == 3

CacheFonts == {"mplantin"}
CacheSymbols == {<<"U">>, <<"u">>}
CacheFontSizes == {8, 10}
CacheSymbolSizes == {8}

InitCache ==
    /\ font_files \in SUBSET CacheFonts
    /\ symbol_files \in SUBSET {Lower(symbol) : symbol \in CacheSymbols}
    /\ font_cache = EmptyCache /\ mana_cache = EmptyCache
    /\ request = <<>> /\ reply = <<>>
    /\ ArtIdle /\ TextIdle /\ RenderIdle /\ CardIdle

\* font = load_font(font_name, size)
LoadFont ==
    /\ Len(request) < MaxRequests
    /\ \E font_name \in CacheFonts, size \in CacheFontSizes :
          LET out == load_font(font_name, size, font_files, font_cache)
          IN  /\ font_cache' = out.cache
              /\ request' = Append(request, [fn |-> "load_font",
                                             key |-> <<font_name, size>>])
              /\ reply' = Append(reply, out.value)
    /\ UNCHANGED <<font_files, symbol_files, mana_cache, artVars, textVars,
                   renderVars, cardVars>>

\* symbol_img = load_mana_symbol(symbol, size)
LoadManaSymbol ==
    /\ Len(request) < MaxRequests
    /\ \E symbol \in CacheSymbols, size \in CacheSymbolSizes :
          LET out == load_mana_symbol(symbol, size, symbol_files, mana_cache)
          IN  /\ mana_cache' = out.cache
              /\ request' = Append(request, [fn |-> "load_mana_symbol",
                                             key |-> <<symbol, size>>])
              /\ reply' = Append(reply, out.value)
    /\ UNCHANGED <<font_files, symbol_files, font_cache, artVars, textVars,
                   renderVars, cardVars>>

\* What os.path.exists answers (lines 137-141 and 169-182) changes between
\* two requests.
FilesChange ==
    /\ font_files' \in SUBSET CacheFonts
    /\ symbol_files' \in SUBSET {Lower(symbol) : symbol \in CacheSymbols}
    /\ UNCHANGED <<font_cache, mana_cache, callVars, artVars, textVars,
                   renderVars, cardVars>>

NextCache == LoadFont \/ LoadManaSymbol \/ FilesChange

SpecCache == InitCache /\ [][NextCache]_vars

\* ---- specifications end ----

(***************************************************************************)
(* C1: for every art bitmap with positive width and height the placement   *)
(* covers the art box (width >= box width and height >= box height), and   *)
(* exactly one of width/height equals the box dimension.                   *)
(* C1_CoversBox is the covering half, C1_ExactlyOneAxis the other half.    *)
(***************************************************************************)
C1_CoversBox ==
    art_pc = "placed" =>
        /\ placement.width >= ART_BOUNDS_WIDTH
        /\ placement.height >= ART_BOUNDS_HEIGHT

C1_ExactlyOneAxis ==
    art_pc = "placed" =>
        (placement.width = ART_BOUNDS_WIDTH) # (placement.height = ART_BOUNDS_HEIGHT)

(***************************************************************************)
(* C2: parse_text_with_mana returns tokens in input order; a Symbol token  *)
(* is produced exactly for a well-formed markup span ("{", one or more     *)
(* non-"}" characters, "}") and keeps the content between the braces;      *)
(* every other maximal run of characters is one Text token; no token is    *)
(* empty; re-joining the tokens, symbols re-wrapped in braces, gives the   *)
(* input back; "{T}: Add {G}{G}" lexes to                                  *)
(* [Symbol(T), Text(": Add "), Symbol(G), Symbol(G)].                      *)
(***************************************************************************)
TokenSource(t) == IF t.type = "mana" THEN <<"{">> \o t.value \o <<"}">> ELSE t.value

RECURSIVE Rejoin(_)
Rejoin(toks) == IF toks = <<>> THEN <<>> ELSE TokenSource(Head(toks)) \o Rejoin(Tail(toks))

\* s holds a well-formed markup span somewhere.
HasSpan(s) == NextMatch(s, 1) # 0

WellFormedSymbol(t) ==
    t.type = "mana" => (t.value # <<>> /\ \A i \in 1..Len(t.value) : t.value[i] # "}")

C2_LexerContract ==
    text_pc = "lexed" =>
        /\ Rejoin(tokens) = text
        /\ \A i \in 1..Len(tokens) :
              /\ tokens[i].type \in {"mana", "text"}
              /\ tokens[i].value # <<>>
              /\ WellFormedSymbol(tokens[i])
              /\ tokens[i].type = "text" => ~HasSpan(tokens[i].value)
              /\ (i > 1 /\ tokens[i].type = "text") => tokens[i - 1].type = "mana"
        /\ text = ExampleText =>
              tokens = << TextToken("mana", <<"T">>),
                          TextToken("text", <<":", " ", "A", "d", "d", " ">>),
                          TextToken("mana", <<"G">>),
                          TextToken("mana", <<"G">>) >>

(***************************************************************************)
(* C3: wrap_tokens never emits a line whose measured width (the sum of the *)
(* widths of its units, a symbol counting symbolSize + int(0.1*symbolSize))*)
(* exceeds max_width, except when the line holds exactly one unit.         *)
(***************************************************************************)
C3_LineWidthBounded ==
    text_pc = "wrapped" =>
        \A i \in 1..Len(lines) :
            \/ measure_tokens(lines[i], font, mana_size) <= max_width
            \/ Len(lines[i]) = 1

\* A wrapped text with a line of several units, a single unit that overflows
\* on a line of its own, and a symbol among the units.
C3_Witness ==
    /\ text_pc = "wrapped"
    /\ \E i \in 1..Len(lines) : Len(lines[i]) >= 2
    /\ \E i \in 1..Len(lines) :
          Len(lines[i]) = 1 /\ measure_tokens(lines[i], font, mana_size) > max_width
    /\ \E i \in 1..Len(lines) : \E j \in 1..Len(lines[i]) : lines[i][j].type = "mana"

(***************************************************************************)
(* C4: the auto-fit search of draw_rules_text tries base, base-2, base-4,  *)
(* ...; the chosen font size is the first (largest) candidate whose total  *)
(* block height is at most the box height, or the floor size when no       *)
(* candidate fits; the chosen size is never below the floor                *)
(* int(0.5 * base size).                                                   *)
(***************************************************************************)
SearchOver == render_pc \in {"render", "done"} /\ tried # <<>>

Fitting == {i \in 1..Len(tried) : tried[i].height <= bounds.height}

\* C4: the chosen size is the first fitting candidate, else the floor size,
\* and never below the floor.
C4_ChosenSize ==
    SearchOver =>
        /\ \A i \in 1..Len(tried) : tried[i].size = bounds.size - 2 * (i - 1)
        /\ font_size >= MinSize(bounds.size)
        /\ Fitting # {} =>
              /\ font_size = tried[Len(tried)].size
              /\ Fitting = {Len(tried)}
        /\ Fitting = {} =>
              /\ font_size = tried[Len(tried)].size
              /\ font_size - 2 < MinSize(bounds.size)

(***************************************************************************)
(* C6: the block holds a Divider unit only when both oracle text and       *)
(* flavor text are non-empty; with flavor text only, the block begins with *)
(* italic lines, holds no Divider, and no divider or spacing height is     *)
(* added to the total.                                                     *)
(***************************************************************************)
HasDivider == \E i \in 1..Len(all_lines) : all_lines[i].type = "divider"

\* C6: a Divider only with both texts; flavor text alone gives italic lines
\* and their line heights only.
C6_DividerOnlyWithBoth ==
    tried # <<>> =>
        /\ HasDivider => (oracle_text # <<>> /\ flavor_text # <<>>)
        /\ (oracle_text = <<>> /\ flavor_text # <<>>) =>
              /\ \A i \in 1..Len(all_lines) : all_lines[i].type = "italic"
              /\ total_height
                    = Len(all_lines) * ((tried[Len(tried)].size * 12) \div 10)

(***************************************************************************)
(* C7: for oracle text made of newline-delimited paragraphs and no flavor  *)
(* text, the block is each paragraph's wrapped lines in paragraph order,   *)
(* all tagged regular, with no Divider, and the total height is            *)
(* (number of lines) * line_height plus one spacing of                     *)
(* int(0.3 * line_height) after every paragraph except the last.           *)
(* C7_SpacingAfterEveryParagraph states it as written; C7_NonBlank states  *)
(* it with blank paragraphs giving neither lines nor spacing.              *)
(***************************************************************************)
\* The size the block in all_lines was built at, its line height and spacing.
BlockSize == tried[Len(tried)].size
BlockLineHeight == (BlockSize * 12) \div 10
BlockSpacing == (BlockLineHeight * 3) \div 10

\* The wrapped lines of the paragraphs from i on, blank paragraphs skipped.
RECURSIVE ParagraphLines(_, _)
ParagraphLines(paras, i) ==
    IF i > Len(paras) THEN <<>>
    ELSE (IF IsBlank(paras[i]) THEN <<>>
          ELSE wrap_tokens(parse_text_with_mana(paras[i]),
                           FontHandle("mplantin", BlockSize), bounds.width,
                           (BlockSize * 85) \div 100))
         \o ParagraphLines(paras, i + 1)

OracleOnly == tried # <<>> /\ oracle_text # <<>> /\ flavor_text = <<>>

BlockIsParagraphLines ==
    /\ \A i \in 1..Len(all_lines) : all_lines[i].type = "regular"
    /\ [i \in 1..Len(all_lines) |-> all_lines[i].tokens]
          = ParagraphLines(Split(oracle_text, "\n"), 1)

\* C7 as written: one spacing after every newline-delimited paragraph but the
\* last.
C7_SpacingAfterEveryParagraph ==
    OracleOnly =>
        /\ BlockIsParagraphLines
        /\ total_height = Len(all_lines) * BlockLineHeight
                          + (Len(Split(oracle_text, "\n")) - 1) * BlockSpacing

\* C7 with blank paragraphs set aside: one spacing after every non-blank
\* paragraph that is not the last newline-delimited paragraph.
C7_NonBlank ==
    OracleOnly =>
        /\ BlockIsParagraphLines
        /\ total_height
              = Len(all_lines) * BlockLineHeight
                + Cardinality({i \in 1..(Len(Split(oracle_text, "\n")) - 1) :
                                 ~IsBlank(Split(oracle_text, "\n")[i])}) * BlockSpacing

\* "First line.\nSecond line." in a box that holds each paragraph on one line:
\* two lines and exactly one spacing.
C7_Witness ==
    /\ OracleOnly
    /\ oracle_text = ExampleOracle
    /\ Len(all_lines) = 2
    /\ BlockSpacing > 0
    /\ total_height = 2 * BlockLineHeight + BlockSpacing

(***************************************************************************)
(* C5: for a one_line text element with any base size and any text, the    *)
(* final font size is base - 2k for some k >= 0, every larger candidate    *)
(* tried had measured width > box width, the loop stops as soon as the     *)
(* text fits or the 10px floor is hit, and the final font size is never    *)
(* below 10px when the base size is at least 10px.                         *)
(***************************************************************************)
ShrinkOver == render_pc \in {"place", "done"} /\ HasText(text) /\ bounds.one_line

\* C5: the final size is even-stepped from the base, larger candidates were
\* too wide, the loop stops at the first fit or the floor, never below 10px.
C5_ShrinkContract ==
    ShrinkOver =>
        /\ \E k \in 0..bounds.size : font_size = bounds.size - 2 * k
        /\ \A i \in 1..Len(tried) :
              tried[i].size > font_size => tried[i].width > bounds.width
        /\ \A i \in 1..(Len(tried) - 1) :
              tried[i].width > bounds.width /\ tried[i].size > 10
        /\ bounds.size >= 10 => font_size >= 10

(***************************************************************************)
(* C8: draw_mana_cost with a cost of n >= 1 symbols places exactly n       *)
(* symbol units left to right, consecutive units separated by a gutter of  *)
(* int(0.1 * symbolSize), with the right edge of the last unit exactly at  *)
(* the mana box's right pixel edge.  A unit is the slot the loop reserves  *)
(* for a symbol; every symbol drawn sits in its slot, and when every       *)
(* symbol loads all n are drawn.                                           *)
(***************************************************************************)
CostSymbols == parse_mana_cost(text)

\* C8: n slots, a gutter apart, the last flush with the right edge.
C8_FlushRightUnits ==
    (render_pc = "cost" /\ CostSymbols # <<>>) =>
        LET n == Len(CostSymbols)
            size == bounds.size
            gutter == size \div 10
        IN  /\ Len(slots) = n
            /\ \A i \in 1..(n - 1) : slots[i + 1] = slots[i] + size + gutter
            /\ slots[n] + size = bounds.right
            /\ \A j \in 1..Len(drawn) :
                  \E i \in 1..n :
                     /\ drawn[j].x = slots[i] /\ drawn[j].y = bounds.y
                     /\ drawn[j].value = CostSymbols[i] /\ drawn[j].size = size
            /\ (\A i \in 1..n : Lower(CostSymbols[i]) \in symbol_files) =>
                  /\ Len(drawn) = n
                  /\ \A i \in 1..n : drawn[i].x = slots[i]

\* "{2}{U}{U}" in the card's mana box with both symbol files present: three
\* symbols of 72 pixels with gutters of 7, the last one ending at 1386.
C8_Witness ==
    /\ render_pc = "cost"
    /\ text = ExampleCost
    /\ bounds = ManaBounds
    /\ Len(drawn) = 3
    /\ drawn[1].x = 1156 /\ drawn[2].x = 1235 /\ drawn[3].x = 1314

(***************************************************************************)
(* C9: in every run of create_card the layers and regions are drawn in the *)
(* order art, frame, border, title, mana cost, type line, rules block,     *)
(* power/toughness, artist credit, copyright line, each at most once, and  *)
(* a text region whose card-data field is absent or the empty string has   *)
(* no draw performed for it.                                               *)
(***************************************************************************)
Rank(region) ==
    CASE region = "art" -> 1 [] region = "frame" -> 2 [] region = "border" -> 3
      [] region = "title" -> 4 [] region = "mana" -> 5 [] region = "type" -> 6
      [] region = "rules" -> 7 [] region = "pt" -> 8 [] region = "artist" -> 9
      [] region = "copyright" -> 10

DrawnRegions == {canvas[i].region : i \in 1..Len(canvas)}

AllIds(symbols) == {Lower(symbols[i]) : i \in 1..Len(symbols)}

TokenIds(toks) ==
    {Lower(toks[i].value) : i \in {k \in 1..Len(toks) : toks[k].type = "mana"}}

SymbolLoads(op) == op.kind = "text" \/ Lower(op.value) \in symbol_files

\* C10: a symbol that fails to load is not drawn and moves nothing else.
C10_FailedSymbolKeepsPositions ==
    /\ render_pc = "cost" =>
          LET full == draw_mana_cost(text, bounds, AllIds(CostSymbols), EmptyCache)
          IN  /\ slots = full.slots
              /\ cursor = full.x
              /\ drawn = SelectSeq(full.ops, SymbolLoads)
    /\ render_pc = "line" =>
          LET full == draw_token_line(tokens, bounds.x, bounds.y, font, mana_size,
                                      TokenIds(tokens), EmptyCache)
          IN  /\ cursor = full.x
              /\ drawn = SelectSeq(full.ops, SymbolLoads)

\* "{2}{U}{U}" with no file for the symbol 2: the two U are drawn, in the
\* second and third slots.
C10_Witness ==
    /\ render_pc = "cost"
    /\ text = ExampleCost
    /\ symbol_files = {<<"u">>}
    /\ Len(slots) = 3
    /\ Len(drawn) = 2
    /\ drawn[1].x = slots[2] /\ drawn[2].x = slots[3]

(***************************************************************************)
(* C11: for an input with an unmatched "{" (a "{" that is not closed by a  *)
(* "}" before the next "{" or the end of the input), no Symbol token       *)
(* starts at or covers that "{": it is emitted as literal Text.            *)
(***************************************************************************)
\* The "{" at position p of s is not closed before the next "{" or the end.
Unmatched(s, p) ==
    /\ s[p] = "{"
    /\ ~\E j \in (p + 1)..Len(s) :
          s[j] = "}" /\ \A k \in (p + 1)..(j - 1) : s[k] # "{"

\* The position in the input of the first character of token i.
RECURSIVE TokenStart(_, _)
TokenStart(toks, i) ==
    IF i = 1 THEN 1 ELSE TokenStart(toks, i - 1) + Len(TokenSource(toks[i - 1]))

\* C11: no Symbol token covers an unmatched "{".
C11_UnmatchedBraceIsText ==
    text_pc = "lexed" =>
        \A p \in 1..Len(text) :
            Unmatched(text, p) =>
                \A i \in 1..Len(tokens) :
                    (/\ TokenStart(tokens, i) <= p
                     /\ p < TokenStart(tokens, i) + Len(TokenSource(tokens[i])))
                    => tokens[i].type = "text"

(***************************************************************************)
(* C12: for every placement calculate_art_placement can return, the art    *)
(* create_card pastes has been cropped to the canvas: the paste origin is  *)
(* (max(0, x), max(0, y)), the crop on the left and top equals the         *)
(* negative excess -x and -y, and the pasted rectangle ends within the     *)
(* canvas: paste_x + width <= CARD_WIDTH, paste_y + height <= CARD_HEIGHT. *)
(***************************************************************************)
C12_PastedWithinCanvas ==
    art_pc = "pasted" =>
        LET op == canvas[1].ops[1]
        IN  /\ op.x = Max(0, placement.x) /\ op.y = Max(0, placement.y)
            /\ op.left = Max(0, 0 - placement.x) /\ op.top = Max(0, 0 - placement.y)
            /\ op.x + op.width <= CARD_WIDTH
            /\ op.y + op.height <= CARD_HEIGHT

(***************************************************************************)
(* C13: both shrink loops (the rules-text auto-fit loop and the one-line   *)
(* width loop) terminate for every input, after at most                    *)
(* (base size - floor) / 2 + 1 candidate sizes, whether or not the text    *)
(* ever fits.                                                              *)
(***************************************************************************)
\* The run is one of draw_text_element (its bounds carry the style keys).
ElemRun == "one_line" \in DOMAIN bounds

\* The floor of the running loop: min_size, or the fixed 10 pixels.
LoopFloor == IF ElemRun THEN 10 ELSE bounds.size \div 2

\* At most (base - floor) / 2 + 1 candidates have been measured; below a
\* base of 10 the one-line loop measures none.
CandidatesBounded ==
    IF bounds.size >= LoopFloor
    THEN 2 * Len(tried) <= (bounds.size - LoopFloor) + 2
    ELSE tried = <<>>

\* A step of the running function can be taken unless it has returned: the
\* guards of RulesEnter, RulesCandidate, RulesRender, ElemEnter, ElemShrink
\* and ElemPlace.
NotStuck ==
    \/ render_pc \in {"start", "enter", "render", "place", "done"}
    \/ render_pc = "loop" /\ LoopRuns(font_size, MinSize(bounds.size))
    \/ render_pc = "shrink" /\ ShrinkRuns(font_size)

\* A natural number that every step makes smaller.
Variant ==
    CASE render_pc = "done" -> 0
      [] render_pc \in {"render", "place"} -> 1
      [] render_pc \in {"loop", "shrink"} -> font_size + 2
      [] render_pc \in {"start", "enter"} -> bounds.size + 3

\* C13: the bound on the candidates holds throughout, and the function
\* returns: every step lowers a natural number and a step can be taken until
\* the function has returned.
C13_LoopsTerminate ==
    /\ [](CandidatesBounded /\ NotStuck /\ Variant >= 0)
    /\ [][Variant' < Variant]_vars

\* The auto-fit loop has run out of candidates without a fit, after exactly
\* (8 - 4) / 2 + 1 = 3 of them, and the function has returned.
C13_Witness ==
    /\ render_pc = "done"
    /\ ~ElemRun
    /\ bounds.size = 8
    /\ Len(tried) = 3
    /\ \A i \in 1..3 : tried[i].height > bounds.height

(***************************************************************************)
(* C14: draw_rules_text is deterministic with respect to its inputs.       *)
(***************************************************************************)
\* The search of lines 630-688 on the current arguments from empty caches.
FreshFit ==
    FitLoop([font_size |-> bounds.size, all_lines |-> <<>>, total_height |-> 0,
             cache |-> EmptyCache, fits |-> FALSE],
            oracle_text, flavor_text, bounds, bar, font_files)

\* C14: whatever the font and symbol caches held when the call began, the
\* font size a call of draw_rules_text chooses and the line partition it
\* lays out are those the same call yields from empty caches, so two calls
\* with the same oracle text, flavor text, bounds and fonts agree on both.
C14_CacheIndependent ==
    (render_pc \in {"render", "done"} /\ (oracle_text # <<>> \/ flavor_text # <<>>)) =>
        /\ font_size = FreshFit.font_size
        /\ all_lines = FreshFit.all_lines

\* A later call has finished after trying a size an earlier call of the
\* session had tried on another text, so its fonts came out of the cache.
C14_Witness ==
    /\ render_pc = "done"
    /\ \E i, j \in DOMAIN tried :
          /\ i < j
          /\ tried[i].size = tried[j].size
          /\ tried[i].height # tried[j].height


(***************************************************************************)
(* C15: wrap_tokens packs greedily.                                        *)
(***************************************************************************)
\* The non-blank words of a text token as units; spaced tells that the word
\* follows a space of its token.
RECURSIVE WordUnits(_, _)
WordUnits(words, i) ==
    IF i > Len(words) THEN <<>>
    ELSE (IF IsBlank(words[i]) THEN <<>>
          ELSE <<[type |-> "text", value |-> words[i], spaced |-> i > 1]>>)
         \o WordUnits(words, i + 1)

\* The units of the input tokens in input order.
RECURSIVE InputUnits(_)
InputUnits(toks) ==
    IF toks = <<>> THEN <<>>
    ELSE (IF Head(toks).type = "text"
          THEN WordUnits(Split(Head(toks).value, " "), 1)
          ELSE <<[type |-> "mana", value |-> Head(toks).value, spaced |-> FALSE]>>)
         \o InputUnits(Tail(toks))

\* The emitted units in reading order, and the index in that order of the
\* first unit of line k.
EmittedUnits == Concat(lines)

RECURSIVE LineStart(_)
LineStart(k) == IF k = 1 THEN 1 ELSE LineStart(k - 1) + Len(lines[k - 1])

\* The unit as it is offered to a line that ends with prev: a word carries
\* its space unless it opens its token right after a symbol.
AsAppended(unit, prev) ==
    IF unit.type = "text" /\ (unit.spaced \/ prev.type # "mana")
    THEN TextToken("text", <<" ">> \o unit.value)
    ELSE TextToken(unit.type, unit.value)

\* C15: every unit is emitted whole; a unit that is not the first of its
\* line was appended because the line's width including it is at most
\* max_width; and the first unit of every line after the first was sent
\* there because the previous line's width plus the unit's width, measured
\* as it would have been appended, exceeds max_width.
C15_GreedyPacking ==
    text_pc = "wrapped" =>
        LET units == InputUnits(tokens)
        IN  /\ Len(EmittedUnits) = Len(units)
            /\ \A n \in 1..Len(units) :
                  /\ EmittedUnits[n].type = units[n].type
                  /\ units[n].value = IF units[n].type = "text"
                                       THEN LStrip(EmittedUnits[n].value)
                                       ELSE EmittedUnits[n].value
            /\ \A k \in 1..Len(lines) :
                  /\ lines[k] # <<>>
                  /\ \A j \in 2..Len(lines[k]) :
                        measure_tokens(SubSeq(lines[k], 1, j), font, mana_size)
                            <= max_width
            /\ \A k \in 2..Len(lines) :
                  LET prev == lines[k - 1]
                      unit == AsAppended(units[LineStart(k)], prev[Len(prev)])
                  IN  measure_tokens(prev, font, mana_size)
                          + UnitWidth(unit, font, mana_size) > max_width

\* A wrapped text in which one line opens with a symbol and another opens
\* with a word that would have fitted on the previous line without its
\* space.
C15_Witness ==
    /\ text_pc = "wrapped"
    /\ \E k \in 2..Len(lines) : lines[k][1].type = "mana"
    /\ \E k \in 2..Len(lines) :
          /\ lines[k][1].type = "text"
          /\ measure_tokens(lines[k - 1], font, mana_size)
                + UnitWidth(lines[k][1], font, mana_size) <= max_width

(***************************************************************************)
(* C16: the caches are insert-on-miss and never evicted.                   *)
(***************************************************************************)
\* Every entry of cache is in after, with the same value.
Kept(cache, after) ==
    \A k \in DOMAIN cache : k \in DOMAIN after /\ after[k] = cache[k]

\* What one request may do to its own cache: on a hit return the stored
\* value and change nothing, on a miss touch no key but its own.
HitOrOwnKey(cache, after, key, value) ==
    /\ key \in DOMAIN cache => value = cache[key] /\ after = cache
    /\ key \notin DOMAIN cache => DOMAIN after \subseteq DOMAIN cache \cup {key}

\* C16: no step removes a key of either cache or replaces its value; a
\* request whose key is present returns the stored value and leaves both
\* caches as they were; a request that misses changes at most the entry of
\* its own (identifier, size) key, and nothing in the other cache.
C16_InsertOnMiss ==
    [][/\ Kept(font_cache, font_cache')
       /\ Kept(mana_cache, mana_cache')
       /\ Len(request') > Len(request) =>
             LET call == request'[Len(request')]
                 value == reply'[Len(reply')]
             IN  IF call.fn = "load_font"
                 THEN /\ HitOrOwnKey(font_cache, font_cache', call.key, value)
                      /\ mana_cache' = mana_cache
                 ELSE /\ HitOrOwnKey(mana_cache, mana_cache', call.key, value)
                      /\ font_cache' = font_cache]_vars

\* The same font was requested twice and its file appeared after the first
\* request: the second request returned the stored default font; and a
\* symbol request has failed and left no entry.
C16_Witness ==
    /\ \E i, j \in DOMAIN request :
          /\ i < j
          /\ request[i].fn = "load_font" /\ request[j].fn = "load_font"
          /\ request[i].key = request[j].key
          /\ reply[j] = DefaultFont
          /\ request[i].key[1] \in font_files
    /\ \E i \in DOMAIN request :
          /\ request[i].fn = "load_mana_symbol"
          /\ reply[i] = NoValue
          /\ request[i].key \notin DOMAIN mana_cache

(***************************************************************************)
(* C17: draw_rules_text draws at the size the block was laid out at.       *)
(***************************************************************************)
\* The size of the last candidate: all_lines, the line widths and
\* total_height are the ones computed in that iteration.
LayoutSize == tried[Len(tried)].size

\* C17: after the render, font_size is the size the drawn line partition,
\* line widths and total height were computed at, every text unit was drawn
\* with a font loaded at that size and every symbol at the symbol size
\* derived from it, whether or not a candidate fitted.
C17_DrawnAtLayoutSize ==
    (render_pc = "done" /\ tried # <<>>) =>
        /\ font_size = LayoutSize
        /\ \A i \in 1..Len(drawn) :
              /\ drawn[i].kind = "text" =>
                    drawn[i].font \in {OpenFont(n, LayoutSize, font_files) :
                                         n \in {"mplantin", "mplantini"}}
              /\ drawn[i].kind = "symbol" => drawn[i].size = ManaSize(LayoutSize)

(***************************************************************************)
(* C18: the block drawn by draw_rules_text is vertically centred.          *)
(***************************************************************************)
\* C18: the render cursor starts at
\* yStart = boxY + (boxHeight - totalHeight) // 2 and its total advance over
\* the units of the block equals the sizer's totalHeight.
C18_AdvanceIsTotalHeight ==
    (render_pc = "done" /\ tried # <<>>) =>
        LET y_start == bounds.y + FloorDiv(bounds.height - total_height, 2)
        IN  y_end - y_start = total_height

(***************************************************************************)
(* C19: wrap_tokens loses and reorders nothing.                            *)
(***************************************************************************)
\* The words of a text token with the spaces around them: before tells that
\* a space of the token precedes the word, after that one follows it.
RECURSIVE SpacedWords(_, _)
SpacedWords(words, i) ==
    IF i > Len(words) THEN <<>>
    ELSE (IF words[i] = <<>> THEN <<>>
          ELSE <<[type |-> "text", value |-> words[i],
                  before |-> i > 1, after |-> i < Len(words)]>>)
         \o SpacedWords(words, i + 1)

\* The non-empty space-separated words and the symbols of the input tokens,
\* in input order.
RECURSIVE WordsAndSymbols(_)
WordsAndSymbols(toks) ==
    IF toks = <<>> THEN <<>>
    ELSE (IF Head(toks).type = "text"
          THEN SpacedWords(Split(Head(toks).value, " "), 1)
          ELSE <<[type |-> "mana", value |-> Head(toks).value,
                  before |-> FALSE, after |-> FALSE]>>)
         \o WordsAndSymbols(Tail(toks))

\* s without its leading spaces.
RECURSIVE StripSpaces(_)
StripSpaces(s) == IF s # <<>> /\ s[1] = " " THEN StripSpaces(Tail(s)) ELSE s

\* Whether unit n and unit n + 1 of the emitted sequence are on one line.
SameLine(n) ==
    \E k \in 1..Len(lines) : LineStart(k) <= n /\ n + 1 < LineStart(k) + Len(lines[k])

\* Whether the emitted unit n + 1 is separated from unit n by a space.
SpaceBetween(n) ==
    LET a == EmittedUnits[n]
        b == EmittedUnits[n + 1]
    IN  \/ b.type = "text" /\ b.value # <<>> /\ b.value[1] = " "
        \/ a.type = "text" /\ a.value # <<>> /\ a.value[Len(a.value)] = " "

\* C19: the emitted units, read line by line and without their leading
\* spaces, are the non-empty words and the symbols of the input in input
\* order; and two neighbours that a space separated in the input and that
\* share a line are separated by a space in that line.
C19_NothingLost ==
    text_pc = "wrapped" =>
        LET units == WordsAndSymbols(tokens)
        IN  /\ Len(EmittedUnits) = Len(units)
            /\ \A n \in 1..Len(units) :
                  /\ EmittedUnits[n].type = units[n].type
                  /\ units[n].value = IF units[n].type = "text"
                                       THEN StripSpaces(EmittedUnits[n].value)
                                       ELSE EmittedUnits[n].value
            /\ \A n \in 1..(Len(units) - 1) :
                  ((units[n].after \/ units[n + 1].before) /\ SameLine(n))
                      => SpaceBetween(n)

\* ---- claims end ----
====
